---- MODULE Spec2Model ----
(***************************************************************************)
(* Job pipeline of the slideshow renderer: the submit handler of app.py,   *)
(* the inline pipeline generate_video_sync, the RQ job generate_video_job  *)
(* (tasks.py) and the Celery task generate_video_task (celery_tasks.py),   *)
(* together with the progress records each of them publishes.              *)
(*                                                                         *)
(* Identifiers are character tuples, durations are IEEE floats reduced to  *)
(* hundredths of a second plus NaN, uuid4() is a counter of fresh ids.     *)
(***************************************************************************)
EXTENDS Integers, Sequences, FiniteSets, TLC

\* ------------------------------------------------------------------ bounds
MaxImages == 2      \* most image files in the session directory
MaxJobs == 2        \* most jobs created in one behaviour of SpecPair

\* ------------------------------------------------------- program constants
max_retries == 3            \* celery_tasks.py:81  @shared_task(max_retries=3)
MinDurationCs == 50         \* app.py:612  0.5 s, in hundredths of a second
MaxDurationCs == 1000       \* app.py:612  10 s, in hundredths of a second

\* ------------------------------------------------------------- identifiers
Rep(c, n) == [i \in 1..n |-> c]

UuidOf(c) ==
    Rep(c, 8) \o <<"-">> \o Rep(c, 4) \o <<"-">> \o Rep(c, 4) \o <<"-">>
              \o Rep(c, 4) \o <<"-">> \o Rep(c, 12)

HexDigits ==
    {"0", "1", "2", "3", "4", "5", "6", "7", "8", "9",
     "a", "b", "c", "d", "e", "f", "A", "B", "C", "D", "E", "F"}

\* the 36 characters 8-4-4-4-12 of the pattern, case-insensitive
UuidBody(s) ==
    /\ Len(s) = 36
    /\ \A i \in 1..36 :
          IF i \in {9, 14, 19, 24} THEN s[i] = "-" ELSE s[i] \in HexDigits

\* re.match('^...$'): '$' also matches just before one trailing newline
is_valid_uuid(s) ==
    \/ UuidBody(s)
    \/ /\ Len(s) = 37
       /\ s[37] = "\n"
       /\ UuidBody(SubSeq(s, 1, 36))

NoId == << >>                       \* None or '' : falsy in Python
SessionA == UuidOf("a")             \* the session directory that exists
SessionB == UuidOf("b")             \* a well-formed id with no directory
SessionNl == SessionA \o <<"\n">>   \* passes the pattern, names no directory
Traversal == <<".", ".", "/", "x">> \* not a uuid
AudioC == UuidOf("c")

\* ------------------------------------------------------------- durations
\* float(data.get('duration', 2)): a finite number (hundredths), NaN, or
\* a value float() refuses (ValueError / TypeError)
Num(cs) == [kind |-> "num", cs |-> cs]
NaN == [kind |-> "nan", cs |-> 0]
NotANumber == [kind |-> "bad", cs |-> 0]

\* IEEE comparisons: every comparison with NaN is false
FloatLt(x, cs) == x.kind = "num" /\ x.cs < cs
FloatGt(x, cs) == x.kind = "num" /\ x.cs > cs

\* app.py:612  duration_per_image < 0.5 or duration_per_image > 10
DurationRejected(d) == FloatLt(d, MinDurationCs) \/ FloatGt(d, MaxDurationCs)

\* ------------------------------------------------------------------ paths
\* A path is [abs, parts]: whether the string starts with '/', and its
\* components between slashes. A component is a name, ".." or ".".
Path(abs, parts) == [abs |-> abs, parts |-> parts]

\* the characters of a component: uploads_x is uploads with more characters
Chars(c) ==
    CASE c = "uploads" -> <<"u">>
      [] c = "uploads_x" -> <<"u", "x">>
      [] c = "app" -> <<"a">>
      [] c = "f" -> <<"f">>
      [] c = ".." -> <<".", ".">>
      [] OTHER -> <<".">>

\* os.getcwd()
Cwd == <<"app">>

\* os.path.join(a, b): an absolute b discards a
Join(a, b) == IF b.abs THEN b ELSE Path(a.abs, a.parts \o b.parts)

RECURSIVE JoinAll(_, _)
JoinAll(a, paths) ==
    IF paths = << >> THEN a ELSE JoinAll(Join(a, Head(paths)), Tail(paths))

\* os.path.normpath of an absolute path: "." is dropped, ".." removes the
\* component before it and stays at the root
RECURSIVE Normpath(_, _)
Normpath(done, parts) ==
    IF parts = << >> THEN done
    ELSE IF Head(parts) = "." THEN Normpath(done, Tail(parts))
    ELSE IF Head(parts) = ".."
    THEN Normpath(IF done = << >> THEN << >>
                  ELSE SubSeq(done, 1, Len(done) - 1), Tail(parts))
    ELSE Normpath(Append(done, Head(parts)), Tail(parts))

\* os.path.abspath(p), as the components below the root
Abspath(p) == Normpath(<< >>, IF p.abs THEN p.parts ELSE Cwd \o p.parts)

\* the string of an absolute path, character by character
RECURSIVE PathString(_)
PathString(parts) ==
    IF parts = << >> THEN << >>
    ELSE <<"/">> \o Chars(Head(parts)) \o PathString(Tail(parts))

\* str.startswith
StartsWith(s, prefix) ==
    /\ Len(prefix) <= Len(s)
    /\ SubSeq(s, 1, Len(prefix)) = prefix

\* safe_join_path(base_path, *paths), the same in app.py, tasks.py and
\* celery_tasks.py: ValueError unless the string of the joined absolute
\* path starts with the string of the absolute base
safe_join_path(base_path, paths) ==
    LET final_path == Abspath(JoinAll(base_path, paths))
        base == Abspath(base_path)
    IN  IF ~StartsWith(IF final_path = << >> THEN <<"/">>
                       ELSE PathString(final_path),
                       IF base = << >> THEN <<"/">> ELSE PathString(base))
        THEN [raised |-> TRUE, path |-> << >>]
        ELSE [raised |-> FALSE, path |-> final_path]

\* ------------------------------------------------------------ resolutions
valid_resolutions ==
    {"640x480", "854x480", "1280x720", "1920x1080", "2560x1440", "3840x2160",
     "480x640", "480x854", "720x1280", "1080x1920", "1440x2560", "2160x3840"}

\* strings that are not in the list (other sizes, other spellings)
OtherResolutions ==
    {"800x600", "1280X720", "1280x720 ", "720x480", "3840x2161", "abc"}

\* width, height = map(int, resolution.split('x')); <<0, 0>> when int() raises
ParseResolution(r) ==
    CASE r = "640x480" -> <<640, 480>>
      [] r = "854x480" -> <<854, 480>>
      [] r = "1280x720" -> <<1280, 720>>
      [] r = "1920x1080" -> <<1920, 1080>>
      [] r = "2560x1440" -> <<2560, 1440>>
      [] r = "3840x2160" -> <<3840, 2160>>
      [] r = "480x640" -> <<480, 640>>
      [] r = "480x854" -> <<480, 854>>
      [] r = "720x1280" -> <<720, 1280>>
      [] r = "1080x1920" -> <<1080, 1920>>
      [] r = "1440x2560" -> <<1440, 2560>>
      [] r = "2160x3840" -> <<2160, 3840>>
      [] r = "800x600" -> <<800, 600>>
      [] r = "1280x720 " -> <<1280, 720>>
      [] r = "720x480" -> <<720, 480>>
      [] r = "3840x2161" -> <<3840, 2161>>
      [] OTHER -> <<0, 0>>

\* app.py 888-899: bitrate by total_pixels = target_width * target_height
SyncBitrate(r) ==
    LET total_pixels == ParseResolution(r)[1] * ParseResolution(r)[2]
    IN  IF total_pixels >= 3840 * 2160 THEN "20000k"
        ELSE IF total_pixels >= 2560 * 1440 THEN "12000k"
        ELSE IF total_pixels >= 1920 * 1080 THEN "8000k"
        ELSE IF total_pixels >= 1280 * 720 THEN "5000k"
        ELSE "2500k"

\* tasks.py 250-258: write_videofile is called without a bitrate argument
JobBitrate(r) == "None"

\* celery_tasks.py 215-224: bitrate by total_pixels = width * height
TaskBitrate(r) ==
    LET total_pixels == ParseResolution(r)[1] * ParseResolution(r)[2]
    IN  IF total_pixels >= 3840 * 2160 THEN "20000k"
        ELSE IF total_pixels >= 1920 * 1080 THEN "8000k"
        ELSE IF total_pixels >= 1280 * 720 THEN "5000k"
        ELSE "2500k"

\* --------------------------------------------------------- session images
\* one file of a session directory that holds k files. upload_images stores
\* every upload as <base of the client's file name>.jpg (app.py 366-395), so
\* the extension is jpg; name is the rank of the file name among the k names
\* in sorted order; good says whether PIL can decode and process the file
ImageKinds(k) == [ext : {"jpg"}, good : BOOLEAN, name : 1..k]

ALLOWED_IMAGE_EXTENSIONS == {"png", "jpg", "jpeg", "gif", "bmp", "webp"}

allowed_file(f, extensions) == f.ext \in extensions

\* ------------------------------------------------------ exception messages
\* str(e) of an exception raised by concatenation or by the encoder, as the
\* words of the message
Lower(w) ==
    CASE w = "Memory" -> "memory"
      [] w = "Timeout" -> "timeout"
      [] OTHER -> w

Contains(msg, word) == \E i \in 1..Len(msg) : Lower(msg[i]) = word

FatalMessage == <<"ffmpeg", "exited", "1">>

ExcMessages ==
    { FatalMessage,
      <<"Cannot", "allocate", "Memory">>,
      <<"read", "Timeout">> }

SoftTimeLimitExceeded == <<"SoftTimeLimitExceeded">>
NoExc == << >>

IsTransient_Always(msg) == TRUE

\* celery_tasks.py:282
IsTransient(msg) == Contains(msg, "memory") \/ Contains(msg, "timeout")


\* ------------------------------------------------------------------ audio
\* Durations and offsets of audio are whole time units (hundredths of a
\* second inside a job).  None is a bound the trim file leaves out;
\* download_youtube persists only bounds in [0, 7200].
None == -1

Min(a, b) == IF a < b THEN a ELSE b
Max(a, b) == IF a > b THEN a ELSE b

NoTrim == [start |-> None, end |-> None]     \* no <audio_id>_trim.json

\* the trim files download_youtube can write with bounds up to n: at least
\* one bound is given, and start < end when both are
TrimWindows(n) ==
    { w \in [start : {None} \cup 0..n, end : {None} \cup 0..n] :
        /\ w # NoTrim
        /\ (w.start # None /\ w.end # None) => w.start < w.end }

\* what the audio step finds on disk: whether a file of the audio id is
\* located, what is wrong with it, its duration Ta, its trim file, and the
\* MoviePy generation the process imported (1: moviepy.editor, 2: moviepy)
AudioEnv(found, fails, Ta, trim, moviepy) ==
    [found |-> found, fails |-> fails, Ta |-> Ta, trim |-> trim,
     moviepy |-> moviepy]

NoCall == << >>

\* clip.subclipped(call[1], call[2]) on a clip of duration Ta, or the clip
\* itself when there is no call; MoviePy raises for a window that does not
\* lie inside the clip
Subclipped(Ta, call) ==
    IF call = NoCall
    THEN [raised |-> FALSE, call |-> call, offset |-> 0, duration |-> Ta]
    ELSE IF 0 <= call[1] /\ call[1] < Ta /\ call[1] <= call[2] /\ call[2] <= Ta
    THEN [raised |-> FALSE, call |-> call, offset |-> call[1],
          duration |-> call[2] - call[1]]
    ELSE [raised |-> TRUE, call |-> call, offset |-> 0, duration |-> Ta]

\* app.py:800-848: both bounds are clamped, then the clip is cut when the
\* window is not the whole asset
TrimInline(Ta, trim) ==
    LET start_time == Min(Max(0, IF trim.start = None THEN 0 ELSE trim.start), Ta)
        end_time == IF trim.end = None THEN None
                    ELSE Min(Max(start_time, trim.end), Ta)
        call == IF ~(start_time > 0 \/ (end_time # None /\ end_time < Ta))
                THEN NoCall
                ELSE IF end_time # None /\ end_time # 0
                THEN <<start_time, end_time>>
                ELSE IF start_time > 0 THEN <<start_time, Ta>>
                ELSE NoCall
    IN  Subclipped(Ta, call)

\* celery_tasks.py:185-198: the bounds are used as persisted; a failing cut
\* is swallowed and leaves the whole asset
TrimCelery(Ta, trim, moviepy) ==
    LET start_time == IF trim.start = None THEN 0 ELSE trim.start
        end_time == trim.end
        truthy == end_time # None /\ end_time # 0
        call == IF start_time > 0 \/ truthy
                THEN <<start_time, IF truthy THEN end_time ELSE Ta>>
                ELSE NoCall
        cut == Subclipped(Ta, call)
    IN  IF call # NoCall /\ moviepy # 2
        THEN [cut EXCEPT !.raised = TRUE, !.offset = 0, !.duration = Ta]
        ELSE cut

Loops_Floor(Ta, Tv) == Tv \div Ta

\* int(video_duration / audio_duration) + 1
Loops(Ta, Tv) == (Tv \div Ta) + 1

\* the duration matching of all three pipelines: cut a longer clip to Tv,
\* repeat a shorter one and cut the repetition to Tv.  Tv = 0 stands for a
\* video duration that is neither above nor below any number (NaN).
Synchronize(Ta, Tv) ==
    IF Tv = 0 \/ Ta = Tv
    THEN [loops |-> 1, concat |-> Ta, duration |-> Ta]
    ELSE IF Ta > Tv
    THEN [loops |-> 1, concat |-> Ta, duration |-> Tv]
    ELSE [loops |-> Loops(Ta, Tv), concat |-> Loops(Ta, Tv) * Ta,
          duration |-> Min(Loops(Ta, Tv) * Ta, Tv)]

\* result of the audio step: the first error it met, whether the video got
\* an audio track, the cut that was asked for, and where in the asset the
\* track starts and how long it is
AudioOut(fault, attached, call, offset, duration) ==
    [fault |-> fault, attached |-> attached, call |-> call,
     offset |-> offset, duration |-> duration]

NoAudio == AudioOut("none", FALSE, NoCall, 0, 0)

\* the audio step of generate_video_sync ("inline"), generate_video_job
\* ("rq") and generate_video_task ("celery") for a video of duration Tv
AddAudio(variant, env, Tv) ==
    IF ~env.found THEN AudioOut("locate", FALSE, NoCall, 0, 0)
    ELSE IF env.fails = "load" THEN AudioOut("load", FALSE, NoCall, 0, 0)
    ELSE
      LET two == env.moviepy = 2
          cut == CASE variant = "inline" -> TrimInline(env.Ta, env.trim)
                   [] variant = "celery" ->
                          TrimCelery(env.Ta, env.trim, env.moviepy)
                   [] OTHER -> Subclipped(env.Ta, NoCall)
          adjust == Tv # 0 /\ cut.duration # Tv
          sync == Synchronize(cut.duration, Tv)
          first == IF cut.raised THEN "trim" ELSE "none"
          Stop(fault) ==
              AudioOut(IF cut.raised THEN "trim" ELSE fault, FALSE,
                       cut.call, 0, 0)
      IN  IF cut.raised /\ variant = "inline" THEN Stop("trim")
          ELSE IF variant # "inline" /\ adjust /\ cut.duration = 0
          THEN Stop("sync")
          ELSE IF variant # "inline" /\ adjust /\ ~two THEN Stop("sync")
          ELSE IF env.fails = "sync" /\ adjust /\ cut.duration < Tv
          THEN Stop("sync")
          ELSE IF (variant = "rq" /\ two) \/ (variant = "celery" /\ ~two)
          THEN Stop("attach")
          ELSE AudioOut(first, TRUE, cut.call, cut.offset, sync.duration)


\* ------------------------------------------------------------------ state
VARIABLES
    scenario,        \* which callers this behaviour has: "single", "pair",
                     \* "audio" or "watch"
    session_files,   \* files of uploads/<SessionA>, in upload (ctime) order
    nextUuid,        \* uuid.uuid4(): the next fresh identifier
    jobs,            \* job id -> the request, its position and its result
    video_queue,     \* RQ queue 'video_generation': job ids, oldest first
    video_progress,  \* app.py in-process map  job id -> record
    redis_progress,  \* Redis keys job_progress:<id>  job id -> record
    published,       \* history: every record published per job id, in order
    output_folder,   \* names <id>.mp4 present in OUTPUT_FOLDER, as ids
    audio_probe,     \* one call of the audio step on its own: inputs, result
    probe,           \* one call of a pure function on its own: the
                     \* function, its arguments and its result
    age,             \* job id -> time since its last update_progress call,
                     \* in ticks of TickSeconds
    stream           \* one client of /progress/<job_id>: the generator's
                     \* position and locals, the last event it sent and
                     \* how many it has sent

vars ==
    <<scenario, session_files, nextUuid, jobs, video_queue, video_progress,
      redis_progress, published, output_folder, audio_probe, probe, age,
      stream>>

NoRecord == [stage |-> "absent", progress |-> 0, timestamp |-> 0]
NoResult == [kind |-> "none", video_id |-> 0, download_id |-> 0, keys |-> {}]

NoCallYet == [fn |-> "none", args |-> << >>, out |-> << >>, done |-> FALSE]

\* no client has opened /progress/<job_id>
NoStream ==
    [pc |-> "idle", job_id |-> 0, elapsed |-> 0, last_progress |-> NoRecord,
     last_event |-> "none", events |-> 0]

NoProbe ==
    [variant |-> "none", env |-> AudioEnv(FALSE, "none", 0, NoTrim, 2),
     Tv |-> 0, out |-> NoAudio, done |-> FALSE]

Request(s, a, d, r) ==
    [session_id |-> s, audio_id |-> a, duration |-> d, resolution |-> r]

\* every combination a caller of /generate_video can send
FullMenu ==
    { Request(s, a, d, r) :
        s \in {SessionA, SessionB, SessionNl, Traversal, NoId},
        a \in {NoId, AudioC, Traversal},
        d \in {Num(49), Num(50), Num(200), Num(1000), Num(1001), NaN,
               NotANumber},
        r \in valid_resolutions \cup OtherResolutions }

\* well-formed requests only
PairMenu ==
    { Request(SessionA, a, Num(200), "1280x720") : a \in {NoId, AudioC} }

\* arguments a producer hands to generate_video_task.delay
CeleryMenu ==
    { Request(s, a, Num(200), r) :
        s \in {SessionA, SessionB}, a \in {NoId, AudioC},
        r \in {"1280x720", "abc"} }

Menu == IF scenario = "single" THEN FullMenu ELSE PairMenu
TaskMenu == IF scenario = "single" THEN CeleryMenu ELSE PairMenu
Quota == IF scenario = "pair" THEN MaxJobs ELSE 1

JobIds == DOMAIN jobs

NewJob(strategy, req, pc, http) ==
    [strategy |-> strategy, req |-> req, pc |-> pc, http |-> http,
     run |-> 1, retries |-> 0, image_files |-> << >>, idx |-> 0,
     clips |-> << >>, exc |-> NoExc, faulted |-> FALSE, output_id |-> 0,
     audio |-> NoAudio, bitrate |-> "", wrote |-> {}, error |-> "",
     counted |-> << >>, result |-> NoResult]

\* session directories of up to n files, as sequences in upload order; two
\* files of a directory never have the same name
SessionFilesUpTo(n) ==
    UNION { { f \in [1..k -> ImageKinds(k)] :
                \A a \in 1..k, b \in 1..k : a # b => f[a].name # f[b].name } :
            k \in 0..n }

InitCommon ==
    /\ nextUuid = 1
    /\ jobs = << >>
    /\ video_queue = << >>
    /\ video_progress = << >>
    /\ redis_progress = << >>
    /\ published = << >>
    /\ output_folder = {}
    /\ age = << >>
    /\ stream = NoStream

Init ==
    /\ scenario = "single"
    /\ session_files \in SessionFilesUpTo(MaxImages)
    /\ audio_probe = NoProbe
    /\ probe = NoCallYet
    /\ InitCommon

\* several jobs over a session of decodable jpg files
InitPair ==
    /\ scenario = "pair"
    /\ session_files \in
          { [i \in 1..k |-> [ext |-> "jpg", good |-> TRUE, name |-> i]] :
              k \in 0..MaxImages }
    /\ audio_probe = NoProbe
    /\ probe = NoCallYet
    /\ InitCommon

\* os.path.exists(os.path.join(UPLOAD_FOLDER, session_id))
SessionExists(session_id) == session_id = SessionA

\* positions of the files of a session directory with one of the
\* extensions, in upload order (oldest first)
Listing(session_id, extensions) ==
    IF SessionExists(session_id)
    THEN SelectSeq([i \in 1..Len(session_files) |-> i],
                   LAMBDA i : allowed_file(session_files[i], extensions))
    ELSE << >>


\* sorted() and list.sort() of the paths of one directory: by file name
SortedByName(files) ==
    LET Before(i) ==
            Cardinality({ k \in 1..Len(files) :
                            session_files[files[k]].name
                               < session_files[files[i]].name })
    IN  [r \in 1..Len(files) |->
            files[CHOOSE i \in 1..Len(files) : Before(i) = r - 1]]

Put(f, k, v) == (k :> v) @@ f

\* progress_data of one update_progress call for job j; the timestamp,
\* datetime.now().isoformat(), is the number of the call among the job's
Record(j, stage, progress) ==
    [stage |-> stage, progress |-> progress,
     timestamp |-> Len(published[j]) + 1]

\* history of update_progress calls for one job id; run is the number of
\* the delivery that publishes (request.retries + 1 in Celery, else 1)
Log(j, stage, progress) ==
    Put(published, j,
        Append(published[j],
               [stage |-> stage, progress |-> progress,
                run |-> jobs[j].retries + 1]))

SetJob(j, rec) == jobs' = Put(jobs, j, rec)

\* -------------------------------------------------- app.py: update_progress
\* app.py's redis_conn is set exactly when video_queue is, so it is None
\* whenever generate_video_sync runs
AppRedisConn(j) == jobs[j].strategy # "inline"

app_update_progress(j, stage, progress) ==
    /\ redis_progress' =
          IF AppRedisConn(j)
          THEN Put(redis_progress, j, Record(j, stage, progress))
          ELSE redis_progress
    /\ video_progress' = Put(video_progress, j, Record(j, stage, progress))
    /\ published' = Log(j, stage, progress)
    /\ age' = Put(age, j, 0)

\* ---------------------------------------------------- app.py: generate_video
Verdict(http, error) == [http |-> http, error |-> error]
Accepted == Verdict(0, "")

ResolutionAllowed_ByParse(r) ==
    ParseResolution(r) \in { ParseResolution(v) : v \in valid_resolutions }

ResolutionAllowed(r) == r \in valid_resolutions

\* the checks of generate_video in source order; Accepted when all pass
Validate(req) ==
    IF req.duration.kind = "bad"
    THEN Verdict(500, "float() raised")
    ELSE IF req.session_id = NoId \/ ~is_valid_uuid(req.session_id)
    THEN Verdict(400, "Invalid session ID")
    ELSE IF req.audio_id # NoId /\ ~is_valid_uuid(req.audio_id)
    THEN Verdict(400, "Invalid audio ID format")
    ELSE IF DurationRejected(req.duration)
    THEN Verdict(400, "Duration must be between 0.5 and 10 seconds")
    ELSE IF ~ResolutionAllowed(req.resolution)
    THEN Verdict(400, "Invalid resolution")
    ELSE IF ~SessionExists(req.session_id)
    THEN Verdict(404, "Session not found")
    ELSE IF Listing(req.session_id, ALLOWED_IMAGE_EXTENSIONS) = << >>
    THEN Verdict(400, "No images found in session")
    ELSE Accepted

Enqueues_BeforeChecks(verdict, queued) == queued

\* the job is handed to the RQ queue only after every check passed
Enqueues(verdict, queued) == verdict = Accepted /\ queued

\* generate_video_sync is called only after every check passed
RunsInline(verdict, queued) == verdict = Accepted /\ ~queued

\* POST /generate_video; queued is the truth value of video_queue
generate_video(req, queued) ==
    /\ LET job_id == nextUuid
           verdict == Validate(req)
           pc == IF Enqueues(verdict, queued) THEN "queued"
                 ELSE IF RunsInline(verdict, queued) THEN "init"
                 ELSE "rejected"
           http == IF verdict # Accepted THEN verdict.http
                   ELSE IF queued THEN 200 ELSE 0
           \* line 630: the image files the submit check found
           image_files == IF verdict = Accepted
                          THEN Listing(req.session_id, ALLOWED_IMAGE_EXTENSIONS)
                          ELSE << >>
           job == [NewJob(IF queued THEN "rq" ELSE "inline", req, pc, http)
                     EXCEPT !.error = verdict.error,
                            !.counted = image_files]
       IN  /\ nextUuid' = nextUuid + 1
           /\ SetJob(job_id, job)
           /\ published' = Put(published, job_id, << >>)
           /\ video_queue' =
                 IF Enqueues(verdict, queued)
                 THEN Append(video_queue, job_id)
                 ELSE video_queue
    /\ UNCHANGED <<scenario, audio_probe, probe, stream, age, session_files,
                   video_progress, redis_progress,
                   output_folder>>


\* ------------------------------------------------- the steps of a pipeline
\* A pipeline is cut into one step per update_progress call: the record it
\* writes is visible to other processes until the next call overwrites it.
\* A step runs from one call up to the next one, or up to the point where an
\* exception leaves the straight-line code; the handler is a step of its own.
\* progress = 10 + int((idx / total_images) * 50), idx counted from 0; the
\* float product truncates to the integer quotient for every total below 50
ImageProgress_Countdown(idx, total) == 10 + (((total - idx) * 50) \div total)

ImageProgress_Inclusive(idx, total) == 10 + (((idx + 1) * 50) \div total)

ImageProgress(idx, total) == 10 + ((idx * 50) \div total)

Failure(keys) ==
    [kind |-> "failure", video_id |-> 0, download_id |-> 0, keys |-> keys]

Success(video_id, download_id, keys) ==
    [kind |-> "success", video_id |-> video_id, download_id |-> download_id,
     keys |-> keys]

\* the messages external calls fail with in this behaviour
Raised == IF scenario = "single" THEN ExcMessages ELSE {FatalMessage}

\* outcomes of an external call: it returns, or raises with a message
Outcomes == Raised \cup {NoExc}

\* outcomes of write_videofile: as above, and whether a failed encode left
\* a partial file at the output path
EncodeOutcomes ==
    { [exc |-> NoExc, partial |-> FALSE] }
        \cup [exc : Raised, partial : BOOLEAN]

\* the paths write_videofile creates: the output file <id>.mp4 in the output
\* folder and, for a video with audio, the temporary audio file named by
\* temp_audiofile in the working directory (app.py 905-915 passes the fixed
\* name temp-audio.m4a; the workers pass none, "" here, and the library
\* derives the name from the output file's)
EncodeWrites(output_id, audio, temp_audiofile) ==
    {[dir |-> "output", key |-> output_id, name |-> ".mp4"]}
       \cup IF ~audio.attached THEN {}
            ELSE IF temp_audiofile = ""
            THEN {[dir |-> "cwd", key |-> output_id,
                   name |-> "TEMP_MPY_wvf_snd.mp4"]}
            ELSE {[dir |-> "cwd", key |-> 0, name |-> temp_audiofile]}

DecodeError == <<"cannot", "identify", "image", "file">>
ValueError == <<"invalid", "literal", "for", "int()">>

Running(j, strategy, pc) ==
    /\ j \in JobIds
    /\ jobs[j].strategy = strategy
    /\ jobs[j].pc = pc

NextAfterConcat_Always(j) == "audio"

NextAfterConcat(j) == IF jobs[j].req.audio_id # NoId THEN "audio" ELSE "encode"

\* a concatenation that loses the last clip
VideoDuration_DropsLast(j) ==
    IF jobs[j].req.duration.kind = "num"
    THEN (Len(jobs[j].clips) - 1) * jobs[j].req.duration.cs
    ELSE 0

\* final_video.duration: the clips one after another; 0 when the duration
\* per image is NaN
VideoDuration(j) ==
    IF jobs[j].req.duration.kind = "num"
    THEN Len(jobs[j].clips) * jobs[j].req.duration.cs
    ELSE 0

\* the audio directory as one job's audio step can find it
JobAudio(variant) ==
    IF scenario # "single"
    THEN { AudioEnv(TRUE, "none", 3000, [start |-> 500, end |-> 1500], 2) }
    ELSE { AudioEnv(FALSE, "none", 0, NoTrim, 2),
           AudioEnv(TRUE, "load", 0, NoTrim, 2),
           AudioEnv(TRUE, "none", 3000, [start |-> 500, end |-> 1500], 2),
           AudioEnv(TRUE, "none", 3000, [start |-> 500, end |-> 4000], 2),
           AudioEnv(TRUE, "sync", 100, NoTrim, 2),
           AudioEnv(TRUE, "none", 100, NoTrim, 2) }
         \cup IF variant = "inline" THEN {}
              ELSE { AudioEnv(TRUE, "none", 100, NoTrim, 1) }

AfterAudio_Raises(audio) == IF audio.fault # "none" THEN "except" ELSE "encode"

\* every failure of the audio step is caught inside the step
AfterAudio(audio) == "encode"

\* --------------------------------------------- app.py: generate_video_sync
\* the checks repeated at the head of generate_video_sync (lines 676-709)
SyncValidate(req) ==
    IF req.session_id = NoId
    THEN Verdict(400, "No session ID provided")
    ELSE IF ~is_valid_uuid(req.session_id)
    THEN Verdict(400, "Invalid session ID format")
    ELSE IF req.audio_id # NoId /\ ~is_valid_uuid(req.audio_id)
    THEN Verdict(400, "Invalid audio ID format")
    ELSE IF DurationRejected(req.duration)
    THEN Verdict(400, "Duration must be between 0.5 and 10 seconds")
    ELSE IF ~ResolutionAllowed(req.resolution)
    THEN Verdict(400, "Invalid resolution")
    ELSE IF ~SessionExists(req.session_id)
    THEN Verdict(404, "Session not found")
    ELSE Accepted

\* a handler that answers the caller before it runs the pipeline
sync_init_AnswersFirst(j) ==
    /\ Running(j, "inline", "init")
    /\ LET verdict == SyncValidate(jobs[j].req)
       IN  SetJob(j, IF verdict = Accepted
                     THEN [jobs[j] EXCEPT !.pc = "list", !.http = 200]
                     ELSE [jobs[j] EXCEPT !.pc = "returned",
                                          !.http = verdict.http,
                                          !.error = verdict.error,
                                          !.result = Failure({"error"})])
    /\ app_update_progress(j, "initializing", 0)
    /\ UNCHANGED <<scenario, audio_probe, probe, stream, session_files, nextUuid,
                   video_queue, output_folder>>

\* line 674, then the repeated checks
sync_init(j) ==
    /\ Running(j, "inline", "init")
    /\ LET verdict == SyncValidate(jobs[j].req)
       IN  SetJob(j, IF verdict = Accepted
                     THEN [jobs[j] EXCEPT !.pc = "list"]
                     ELSE [jobs[j] EXCEPT !.pc = "returned",
                                          !.http = verdict.http,
                                          !.error = verdict.error,
                                          !.result = Failure({"error"})])
    /\ app_update_progress(j, "initializing", 0)
    /\ UNCHANGED <<scenario, audio_probe, probe, stream, session_files, nextUuid, video_queue,
                   output_folder>>

\* lines 711-724: list the images in upload order
sync_list(j) ==
    /\ Running(j, "inline", "list")
    /\ LET image_files ==
               Listing(jobs[j].req.session_id, ALLOWED_IMAGE_EXTENSIONS)
       IN  IF image_files = << >>
           THEN /\ app_update_progress(j, "error", 0)
                /\ SetJob(j, [jobs[j] EXCEPT !.pc = "returned", !.http = 400,
                                             !.error = "No images found",
                                             !.result = Failure({"error"})])
           ELSE /\ app_update_progress(j, "processing", 10)
                /\ SetJob(j, [jobs[j] EXCEPT !.pc = "image", !.idx = 0,
                                             !.image_files = image_files])
    /\ UNCHANGED <<scenario, audio_probe, probe, stream, session_files, nextUuid, video_queue,
                   output_folder>>

\* lines 731-775: one iteration of the loop; there is no try around the
\* body, so a failing image raises to the handler at line 942
sync_image(j) ==
    /\ Running(j, "inline", "image")
    /\ LET job == jobs[j]
           total_images == Len(job.image_files)
           img == job.image_files[job.idx + 1]
       IN  /\ app_update_progress(j, "processing",
                                  ImageProgress(job.idx, total_images))
           /\ IF session_files[img].good
              THEN SetJob(j, [job EXCEPT
                                !.clips = Append(@, img),
                                !.idx = @ + 1,
                                !.pc = IF job.idx + 1 = total_images
                                       THEN "concat" ELSE "image"])
              ELSE SetJob(j, [job EXCEPT !.pc = "except",
                                         !.exc = DecodeError])
    /\ UNCHANGED <<scenario, audio_probe, probe, stream, session_files, nextUuid, video_queue,
                   output_folder>>

\* lines 777-786
sync_concat(j) ==
    /\ Running(j, "inline", "concat")
    /\ app_update_progress(j, "concatenating", 60)
    /\ \E exc \in Outcomes :
          SetJob(j, IF exc = NoExc
                    THEN [jobs[j] EXCEPT !.pc = NextAfterConcat(j)]
                    ELSE [jobs[j] EXCEPT !.pc = "except", !.exc = exc,
                                         !.faulted = TRUE])
    /\ UNCHANGED <<scenario, audio_probe, probe, stream, session_files, nextUuid, video_queue,
                   output_folder>>

\* lines 788-881: every failure of the audio step is caught at line 870
sync_audio(j) ==
    /\ Running(j, "inline", "audio")
    /\ app_update_progress(j, "audio", 65)
    /\ \E env \in JobAudio("inline") :
          LET audio == AddAudio("inline", env, VideoDuration(j))
          IN  SetJob(j, [jobs[j] EXCEPT !.pc = AfterAudio(audio),
                                       !.audio = audio])
    /\ UNCHANGED <<scenario, audio_probe, probe, stream, session_files, nextUuid, video_queue,
                   output_folder>>

\* lines 883-915: a fresh output_id names the file
sync_encode(j) ==
    /\ Running(j, "inline", "encode")
    /\ app_update_progress(j, "encoding", 75)
    /\ nextUuid' = nextUuid + 1
    /\ \E out \in EncodeOutcomes :
          LET output_id == nextUuid
          IN  /\ output_folder' =
                    IF out.exc = NoExc \/ out.partial
                    THEN output_folder \cup {output_id}
                    ELSE output_folder
              /\ SetJob(j, IF out.exc = NoExc
                           THEN [jobs[j] EXCEPT
                                    !.pc = "finish",
                                    !.bitrate = SyncBitrate(jobs[j].req.resolution),
                                    !.wrote = @ \cup EncodeWrites(
                                        output_id, jobs[j].audio,
                                        "temp-audio.m4a"),
                                    !.output_id = output_id]
                           ELSE [jobs[j] EXCEPT
                                    !.pc = "except",
                                    !.exc = out.exc,
                                    !.faulted = TRUE,
                                    !.bitrate = SyncBitrate(jobs[j].req.resolution),
                                    !.wrote =
                                       IF out.partial
                                       THEN @ \cup EncodeWrites(
                                               output_id, jobs[j].audio,
                                               "temp-audio.m4a")
                                       ELSE @,
                                    !.output_id = output_id])
    /\ UNCHANGED <<scenario, audio_probe, probe, stream, session_files, video_queue>>

\* lines 917-934
sync_finish(j) ==
    /\ Running(j, "inline", "finish")
    /\ app_update_progress(j, "completed", 100)
    /\ SetJob(j, [jobs[j] EXCEPT
                    !.pc = "returned", !.http = 200,
                    !.result = Success(jobs[j].output_id, jobs[j].output_id,
                                       {"success", "video_id", "filename",
                                        "download_url", "job_id"})])
    /\ UNCHANGED <<scenario, audio_probe, probe, stream, session_files, nextUuid, video_queue,
                   output_folder>>

\* lines 942-958: publish the error, remove the partial file
sync_except(j) ==
    /\ Running(j, "inline", "except")
    /\ app_update_progress(j, "error", 0)
    /\ output_folder' = output_folder \ {jobs[j].output_id}
    /\ SetJob(j, [jobs[j] EXCEPT !.pc = "returned", !.http = 500,
                                 !.error = "exception",
                                 !.result = Failure({"error", "job_id"})])
    /\ UNCHANGED <<scenario, audio_probe, probe, stream, session_files, nextUuid, video_queue>>


\* ------------------------------------------------ tasks.py: update_progress
\* a worker that sets the key only when it does not exist
tasks_update_progress_Setnx(j, stage, progress) ==
    /\ redis_progress' =
          IF j \in DOMAIN redis_progress
          THEN redis_progress
          ELSE Put(redis_progress, j, Record(j, stage, progress))
    /\ published' = Log(j, stage, progress)
    /\ age' = Put(age, j, 0)
    /\ UNCHANGED video_progress

\* the worker writes the Redis key only; it has no in-process map
tasks_update_progress(j, stage, progress) ==
    /\ redis_progress' = Put(redis_progress, j, Record(j, stage, progress))
    /\ published' = Log(j, stage, progress)
    /\ age' = Put(age, j, 0)
    /\ UNCHANGED video_progress

\* ------------------------------------------------ tasks.py: get_image_files
JobImageExtensions == {"png", "jpg", "jpeg", "gif", "bmp"}

get_image_files(session_id) ==
    SortedByName(Listing(session_id, JobImageExtensions))

\* --------------------------------------------- tasks.py: generate_video_job
JobFailureKeys == {"success", "error", "stage", "progress"}

\* a worker that reads the oldest job of the queue and leaves it there
job_init_Peek(j) ==
    /\ j \in JobIds
    /\ video_queue # << >>
    /\ Head(video_queue) = j
    /\ video_queue' = video_queue
    /\ tasks_update_progress(j, "initializing", 5)
    /\ SetJob(j, [jobs[j] EXCEPT !.pc = "list"])
    /\ UNCHANGED <<scenario, audio_probe, probe, stream, session_files, nextUuid, output_folder>>

\* a worker takes the oldest job id off the queue and calls
\* generate_video_job with the arguments enqueued under it; line 121
job_init(j) ==
    /\ j \in JobIds
    /\ video_queue # << >>
    /\ Head(video_queue) = j
    /\ video_queue' = Tail(video_queue)
    /\ tasks_update_progress(j, "initializing", 5)
    /\ SetJob(j, [jobs[j] EXCEPT !.pc = "list"])
    /\ UNCHANGED <<scenario, audio_probe, probe, stream, session_files, nextUuid, output_folder>>

\* lines 123-137
job_list(j) ==
    /\ Running(j, "rq", "list")
    /\ LET image_files == get_image_files(jobs[j].req.session_id)
       IN  IF Len(image_files) = 0
           THEN /\ tasks_update_progress(j, "error", 0)
                /\ SetJob(j, [jobs[j] EXCEPT
                                !.pc = "returned",
                                !.error = "No images found for this session",
                                !.result = Failure(JobFailureKeys)])
           ELSE /\ tasks_update_progress(j, "processing", 10)
                /\ SetJob(j, [jobs[j] EXCEPT !.pc = "image", !.idx = 0,
                                             !.image_files = image_files])
    /\ UNCHANGED <<scenario, audio_probe, probe, stream, session_files, nextUuid, video_queue,
                   output_folder>>

\* lines 141-197: one iteration; the body is inside try/except-continue.
\* Lines 180-193 save the letterboxed frame as <image path>.temp.jpg, next to
\* the image in the session directory, and remove it once the clip is made.
job_image(j) ==
    /\ Running(j, "rq", "image")
    /\ LET job == jobs[j]
           total_images == Len(job.image_files)
           img == job.image_files[job.idx + 1]
           processed == /\ session_files[img].good
                        /\ ParseResolution(job.req.resolution) # <<0, 0>>
       IN  /\ tasks_update_progress(j, "processing",
                                    ImageProgress(job.idx, total_images))
           /\ SetJob(j, [job EXCEPT
                           !.clips = IF processed THEN Append(@, img) ELSE @,
                           !.wrote =
                              IF processed
                              THEN @ \cup {[dir |-> "uploads", key |-> img,
                                            name |-> ".temp.jpg"]}
                              ELSE @,
                           !.idx = @ + 1,
                           !.pc = IF job.idx + 1 = total_images
                                  THEN "concat" ELSE "image"])
    /\ UNCHANGED <<scenario, audio_probe, probe, stream, session_files, nextUuid, video_queue,
                   output_folder>>

\* lines 199-210: with no clip the job returns a failure and publishes
\* nothing; otherwise it publishes and concatenates
job_concat(j) ==
    /\ Running(j, "rq", "concat")
    /\ IF Len(jobs[j].clips) = 0
       THEN /\ SetJob(j, [jobs[j] EXCEPT
                            !.pc = "returned",
                            !.error = "Failed to process any images",
                            !.result = Failure(JobFailureKeys)])
            /\ UNCHANGED <<redis_progress, video_progress, published, age>>
       ELSE /\ tasks_update_progress(j, "concatenating", 60)
            /\ \E exc \in Outcomes :
                  SetJob(j, IF exc = NoExc
                            THEN [jobs[j] EXCEPT !.pc = NextAfterConcat(j)]
                            ELSE [jobs[j] EXCEPT !.pc = "except", !.exc = exc,
                                                 !.faulted = TRUE])
    /\ UNCHANGED <<scenario, audio_probe, probe, stream, session_files, nextUuid, video_queue,
                   output_folder>>

\* lines 212-239: a missing file is skipped, a failure is caught at line 236
job_audio(j) ==
    /\ Running(j, "rq", "audio")
    /\ tasks_update_progress(j, "audio", 70)
    /\ \E env \in JobAudio("rq") :
          LET audio == AddAudio("rq", env, VideoDuration(j))
          IN  SetJob(j, [jobs[j] EXCEPT !.pc = AfterAudio(audio),
                                       !.audio = audio])
    /\ UNCHANGED <<scenario, audio_probe, probe, stream, session_files, nextUuid, video_queue,
                   output_folder>>

\* lines 244-258: the output file is <job_id>.mp4
job_encode(j) ==
    /\ Running(j, "rq", "encode")
    /\ tasks_update_progress(j, "encoding", 75)
    /\ \E out \in EncodeOutcomes :
          /\ output_folder' =
                IF out.exc = NoExc \/ out.partial
                THEN output_folder \cup {j}
                ELSE output_folder
          /\ SetJob(j, IF out.exc = NoExc
                       THEN [jobs[j] EXCEPT
                                !.pc = "finish",
                                !.bitrate = JobBitrate(jobs[j].req.resolution),
                                !.wrote = @ \cup
                                   EncodeWrites(j, jobs[j].audio, ""),
                                !.output_id = j]
                       ELSE [jobs[j] EXCEPT
                                !.pc = "except", !.exc = out.exc,
                                !.faulted = TRUE,
                                !.bitrate = JobBitrate(jobs[j].req.resolution),
                                !.wrote =
                                   IF out.partial
                                   THEN @ \cup
                                        EncodeWrites(j, jobs[j].audio, "")
                                   ELSE @,
                                !.output_id = j])
    /\ UNCHANGED <<scenario, audio_probe, probe, stream, session_files, nextUuid, video_queue>>

\* lines 260-287
job_finish(j) ==
    /\ Running(j, "rq", "finish")
    /\ tasks_update_progress(j, "completed", 100)
    /\ SetJob(j, [jobs[j] EXCEPT
                    !.pc = "returned",
                    !.result = Success(j, j,
                                       {"success", "video_id", "video_path",
                                        "file_size", "download_url", "stage",
                                        "progress", "message"})])
    /\ UNCHANGED <<scenario, audio_probe, probe, stream, session_files, nextUuid, video_queue,
                   output_folder>>

\* lines 289-298: publish the error; the output path is left as it is
job_except(j) ==
    /\ Running(j, "rq", "except")
    /\ tasks_update_progress(j, "error", 0)
    /\ SetJob(j, [jobs[j] EXCEPT !.pc = "returned", !.error = "exception",
                                 !.result = Failure(JobFailureKeys)])
    /\ UNCHANGED <<scenario, audio_probe, probe, stream, session_files, nextUuid, video_queue,
                   output_folder>>


\* ----------------------------------------- celery_tasks.py: update_progress
celery_update_progress(j, stage, progress) ==
    /\ redis_progress' = Put(redis_progress, j, Record(j, stage, progress))
    /\ published' = Log(j, stage, progress)
    /\ age' = Put(age, j, 0)
    /\ UNCHANGED video_progress

\* -------------------------------------- celery_tasks.py: generate_video_task
TaskImageExtensions == {"png", "jpg", "jpeg", "gif", "bmp", "webp"}
TaskFailureKeys == {"success", "error"}

\* the soft time limit of the task can strike during any external call
TimeLimit == IF scenario = "single" THEN {SoftTimeLimitExceeded} ELSE {}

TaskOutcomes == Outcomes \cup TimeLimit

TaskEncodeOutcomes == EncodeOutcomes \cup [exc : TimeLimit, partial : BOOLEAN]

CanRetry_OffByOne(retries) == retries <= max_retries

\* Task.retry re-queues the task while request.retries + 1 <= max_retries
\* and re-raises the exception otherwise
CanRetry(retries) == retries + 1 <= max_retries

\* a producer calls generate_video_task.delay with a job id of its own;
\* the task is not behind the checks of generate_video
generate_video_task_delay(req) ==
    /\ nextUuid' = nextUuid + 1
    /\ SetJob(nextUuid, NewJob("celery", req, "pending", 0))
    /\ published' = Put(published, nextUuid, << >>)
    /\ UNCHANGED <<scenario, audio_probe, probe, stream, age, session_files,
                   video_queue, video_progress,
                   redis_progress, output_folder>>

TaskInitProgress_Fifteen == 5 + 10

\* line 89: the progress of the task's first record
TaskInitProgress == 5

\* line 89, for the first delivery and for every retry
task_init(j) ==
    /\ j \in JobIds
    /\ jobs[j].strategy = "celery"
    /\ jobs[j].pc \in {"pending", "retry"}
    /\ celery_update_progress(j, "initializing", TaskInitProgress)
    /\ SetJob(j, [jobs[j] EXCEPT !.pc = "list", !.run = jobs[j].retries + 1,
                                 !.idx = 0, !.clips = << >>,
                                 !.image_files = << >>, !.exc = NoExc,
                                 !.output_id = 0, !.audio = NoAudio])
    /\ UNCHANGED <<scenario, audio_probe, probe, stream, session_files, nextUuid, video_queue,
                   output_folder>>

\* lines 91-111
task_list(j) ==
    /\ Running(j, "celery", "list")
    /\ LET req == jobs[j].req
           image_files ==
               SortedByName(Listing(req.session_id, TaskImageExtensions))
       IN  IF ~SessionExists(req.session_id)
           THEN /\ celery_update_progress(j, "error", 0)
                /\ SetJob(j, [jobs[j] EXCEPT
                                !.pc = "returned",
                                !.error = "Session not found",
                                !.result = Failure(TaskFailureKeys)])
           ELSE IF Len(image_files) = 0
           THEN /\ celery_update_progress(j, "error", 0)
                /\ SetJob(j, [jobs[j] EXCEPT
                                !.pc = "returned",
                                !.error = "No images found",
                                !.result = Failure(TaskFailureKeys)])
           ELSE /\ celery_update_progress(j, "processing", 10)
                /\ SetJob(j, IF ParseResolution(req.resolution) = <<0, 0>>
                             THEN [jobs[j] EXCEPT !.pc = "except",
                                                  !.exc = ValueError,
                                                  !.image_files = image_files]
                             ELSE [jobs[j] EXCEPT !.pc = "image", !.idx = 0,
                                                  !.image_files = image_files])
    /\ UNCHANGED <<scenario, audio_probe, probe, stream, session_files, nextUuid, video_queue,
                   output_folder>>

\* lines 115-160: one iteration; a failing image is skipped
task_image(j) ==
    /\ Running(j, "celery", "image")
    /\ LET job == jobs[j]
           total_images == Len(job.image_files)
           img == job.image_files[job.idx + 1]
       IN  /\ celery_update_progress(j, "processing",
                                     ImageProgress(job.idx, total_images))
           /\ SetJob(j, [job EXCEPT
                           !.clips = IF session_files[img].good
                                     THEN Append(@, img) ELSE @,
                           !.idx = @ + 1,
                           !.pc = IF job.idx + 1 = total_images
                                  THEN "concat" ELSE "image"])
    /\ UNCHANGED <<scenario, audio_probe, probe, stream, session_files, nextUuid, video_queue,
                   output_folder>>

\* lines 162-168
task_concat(j) ==
    /\ Running(j, "celery", "concat")
    /\ IF Len(jobs[j].clips) = 0
       THEN /\ celery_update_progress(j, "error", 0)
            /\ SetJob(j, [jobs[j] EXCEPT
                            !.pc = "returned",
                            !.error = "Failed to process any images",
                            !.result = Failure(TaskFailureKeys)])
       ELSE /\ celery_update_progress(j, "concatenating", 60)
            /\ \E exc \in TaskOutcomes :
                  SetJob(j, IF exc = NoExc
                            THEN [jobs[j] EXCEPT !.pc = NextAfterConcat(j)]
                            ELSE [jobs[j] EXCEPT !.pc = "except", !.exc = exc,
                                                 !.faulted = TRUE])
    /\ UNCHANGED <<scenario, audio_probe, probe, stream, session_files, nextUuid, video_queue,
                   output_folder>>

\* lines 170-210: every failure of the audio step is caught at line 209;
\* the soft time limit can strike before the try block is entered
task_audio(j) ==
    /\ Running(j, "celery", "audio")
    /\ celery_update_progress(j, "audio", 70)
    /\ \/ \E env \in JobAudio("celery") :
             LET audio == AddAudio("celery", env, VideoDuration(j))
             IN  SetJob(j, [jobs[j] EXCEPT !.pc = AfterAudio(audio),
                                          !.audio = audio])
       \/ \E exc \in TimeLimit :
             SetJob(j, [jobs[j] EXCEPT !.pc = "except", !.exc = exc,
                                      !.faulted = TRUE])
    /\ UNCHANGED <<scenario, audio_probe, probe, stream, session_files, nextUuid, video_queue,
                   output_folder>>

\* lines 212-250: the output file is <job_id>.mp4
task_encode(j) ==
    /\ Running(j, "celery", "encode")
    /\ celery_update_progress(j, "encoding", 75)
    /\ \E out \in TaskEncodeOutcomes :
          /\ output_folder' =
                IF out.exc = NoExc \/ out.partial
                THEN output_folder \cup {j}
                ELSE output_folder
          /\ SetJob(j, IF out.exc = NoExc
                       THEN [jobs[j] EXCEPT
                                !.pc = "finish",
                                !.bitrate = TaskBitrate(jobs[j].req.resolution),
                                !.wrote = @ \cup
                                   EncodeWrites(j, jobs[j].audio, ""),
                                !.output_id = j]
                       ELSE [jobs[j] EXCEPT
                                !.pc = "except", !.exc = out.exc,
                                !.faulted = TRUE,
                                !.bitrate = TaskBitrate(jobs[j].req.resolution),
                                !.wrote =
                                   IF out.partial
                                   THEN @ \cup
                                        EncodeWrites(j, jobs[j].audio, "")
                                   ELSE @,
                                !.output_id = j])
    /\ UNCHANGED <<scenario, audio_probe, probe, stream, session_files, nextUuid, video_queue>>

\* lines 252-271
task_finish(j) ==
    /\ Running(j, "celery", "finish")
    /\ celery_update_progress(j, "completed", 100)
    /\ SetJob(j, [jobs[j] EXCEPT
                    !.pc = "returned",
                    !.result = Success(j, j,
                                       {"success", "video_id", "download_url",
                                        "file_size", "stage", "progress"})])
    /\ UNCHANGED <<scenario, audio_probe, probe, stream, session_files, nextUuid, video_queue,
                   output_folder>>

\* lines 273-285: the error record is published first; then a message that
\* names memory or timeout asks for a retry
task_except(j) ==
    /\ Running(j, "celery", "except")
    /\ celery_update_progress(j, "error", 0)
    /\ LET job == jobs[j]
       IN  SetJob(j,
              IF job.exc = SoftTimeLimitExceeded
              THEN [job EXCEPT !.pc = "returned",
                               !.error = "Video generation timed out",
                               !.result = Failure(TaskFailureKeys)]
              ELSE IF IsTransient(job.exc)
              THEN IF CanRetry(job.retries)
                   THEN [job EXCEPT !.pc = "retry", !.retries = @ + 1]
                   ELSE [job EXCEPT !.pc = "returned",
                                    !.error = "raised",
                                    !.result = [Failure({}) EXCEPT
                                                  !.kind = "raised"]]
              ELSE [job EXCEPT !.pc = "returned", !.error = "exception",
                               !.result = Failure(TaskFailureKeys)])
    /\ UNCHANGED <<scenario, audio_probe, probe, stream, session_files, nextUuid, video_queue,
                   output_folder>>

\* ---------------------------------------------------------- specification
\* callers stop after Quota requests
Submit ==
    /\ Cardinality(JobIds) < Quota
    /\ \E req \in Menu, queued \in BOOLEAN : generate_video(req, queued)

Delay ==
    /\ Cardinality(JobIds) < Quota
    /\ \E req \in TaskMenu : generate_video_task_delay(req)

Next ==
    \/ Submit
    \/ Delay
    \/ \E j \in JobIds : sync_init(j)
    \/ \E j \in JobIds : sync_list(j)
    \/ \E j \in JobIds : sync_image(j)
    \/ \E j \in JobIds : sync_concat(j)
    \/ \E j \in JobIds : sync_audio(j)
    \/ \E j \in JobIds : sync_encode(j)
    \/ \E j \in JobIds : sync_finish(j)
    \/ \E j \in JobIds : sync_except(j)
    \/ \E j \in JobIds : job_init(j)
    \/ \E j \in JobIds : job_list(j)
    \/ \E j \in JobIds : job_image(j)
    \/ \E j \in JobIds : job_concat(j)
    \/ \E j \in JobIds : job_audio(j)
    \/ \E j \in JobIds : job_encode(j)
    \/ \E j \in JobIds : job_finish(j)
    \/ \E j \in JobIds : job_except(j)
    \/ \E j \in JobIds : task_init(j)
    \/ \E j \in JobIds : task_list(j)
    \/ \E j \in JobIds : task_image(j)
    \/ \E j \in JobIds : task_concat(j)
    \/ \E j \in JobIds : task_audio(j)
    \/ \E j \in JobIds : task_encode(j)
    \/ \E j \in JobIds : task_finish(j)
    \/ \E j \in JobIds : task_except(j)

Spec == Init /\ [][Next]_vars

SpecPair == InitPair /\ [][Next]_vars

\* ------------------------------------------- uploads while a job is waiting
MaxUploads == 1

\* POST /upload_images with the id of the session that exists and one image
\* that optimize_image can read: the file is saved as <name>.jpg in the
\* session's directory, here with a name after the names that are there
upload_images_more ==
    /\ Len(session_files) < MaxImages + MaxUploads
    /\ session_files' =
          Append(session_files,
                 [ext |-> "jpg", good |-> TRUE, name |-> Len(session_files) + 1])
    /\ UNCHANGED <<scenario, audio_probe, probe, stream, age, nextUuid, jobs,
                   video_queue, video_progress, redis_progress, published,
                   output_folder>>

InitUpload ==
    /\ scenario = "upload"
    /\ session_files \in
          { [i \in 1..k |-> [ext |-> "jpg", good |-> TRUE, name |-> i]] :
              k \in 0..MaxImages }
    /\ audio_probe = NoProbe
    /\ probe = NoCallYet
    /\ InitCommon

NextUpload == Next \/ upload_images_more

SpecUpload == InitUpload /\ [][NextUpload]_vars

\* --------------------------------------------------- the audio step alone
MaxAudioLen == 4    \* longest audio asset and longest video, in time units

\* every variant, asset duration, trim file and video duration up to the
\* bound; the files are intact; app.py imports MoviePy 2 only, the workers
\* fall back to MoviePy 1
InitAudio ==
    /\ scenario = "audio"
    /\ session_files = << >>
    /\ probe = NoCallYet
    /\ InitCommon
    /\ audio_probe \in
          { [NoProbe EXCEPT !.variant = v[1], !.Tv = tv,
                            !.env = AudioEnv(TRUE, "none", ta, w, v[2])] :
              v \in {<<"inline", 2>>, <<"rq", 1>>, <<"rq", 2>>,
                     <<"celery", 1>>, <<"celery", 2>>},
              ta \in 1..MaxAudioLen,
              tv \in 1..MaxAudioLen,
              w \in TrimWindows(MaxAudioLen + 1) \cup {NoTrim} }

add_audio ==
    /\ ~audio_probe.done
    /\ audio_probe' =
          [audio_probe EXCEPT
             !.out = AddAudio(audio_probe.variant, audio_probe.env,
                              audio_probe.Tv),
             !.done = TRUE]
    /\ UNCHANGED <<scenario, session_files, nextUuid, jobs, video_queue,
                   video_progress, redis_progress, published, output_folder,
                   age, stream, probe>>

SpecAudio == InitAudio /\ [][add_audio]_vars

\* ------------------------------------------------- safe_join_path on its own
MaxParts == 2
MaxSegments == 2

\* the strings a caller can pass as one segment: relative or absolute, of
\* up to MaxParts components
Segments ==
    { Path(abs, parts) :
        abs \in BOOLEAN,
        parts \in UNION { [1..n -> {"..", ".", "uploads", "uploads_x", "f"}] :
                          n \in 0..MaxParts } }

\* UPLOAD_FOLDER without a volume
UploadFolder == Path(FALSE, <<"uploads">>)

\* identifiers a client can put in a form field or a URL segment
ClientIds == {SessionA, SessionB, SessionNl, Traversal, <<"*">>}

\* the stems of the files <stem>.mp4 that OUTPUT_FOLDER can hold
OutputStems == {UuidOf("a"), UuidOf("b")}

InitPath ==
    /\ scenario = "path"
    /\ session_files = << >>
    /\ audio_probe = NoProbe
    /\ InitCommon
    /\ probe \in
          { [NoCallYet EXCEPT !.fn = "safe_join_path", !.args = paths] :
              paths \in UNION { [1..n -> Segments] : n \in 0..MaxSegments } }
          \cup { [NoCallYet EXCEPT !.fn = "download_video",
                                   !.args = <<video_id, files>>] :
                   \* <video_id> is one URL segment: no "/" in it
                   video_id \in ClientIds \ {Traversal},
                   files \in SUBSET OutputStems }
          \cup { [NoCallYet EXCEPT !.fn = "upload_images",
                                   !.args = <<session_id>>] :
                   session_id \in ClientIds \cup {NoId} }

call_safe_join_path ==
    /\ probe.fn = "safe_join_path"
    /\ ~probe.done
    /\ probe' = [probe EXCEPT !.out = safe_join_path(UploadFolder, probe.args),
                              !.done = TRUE]
    /\ UNCHANGED <<scenario, session_files, nextUuid, jobs, video_queue,
                   video_progress, redis_progress, published, output_folder,
                   age, stream, audio_probe>>

\* Path.glob(f"{video_id}.*") over files named <stem>.mp4: "*" matches
\* every stem, any other id of ClientIds matches itself only
Glob(video_id, files) ==
    { stem \in files : video_id = <<"*">> \/ video_id = stem }

\* GET /download/<video_id>: the files the pattern matches, the first sent
download_video(video_id, files) ==
    LET video_files == Glob(video_id, files)
    IN  [http |-> IF video_files # {} THEN 200 ELSE 404,
         built |-> {video_id},
         sent |-> video_files]

\* POST /upload_images up to the creation of the session folder: a missing
\* session_id is a fresh uuid4, one that is given is joined as it is
upload_images(session_id) ==
    LET id == IF session_id = NoId THEN UuidOf("d") ELSE session_id
    IN  [http |-> 200, built |-> {id}, sent |-> {}]

call_download_video ==
    /\ probe.fn = "download_video"
    /\ ~probe.done
    /\ probe' = [probe EXCEPT
                   !.out = download_video(probe.args[1], probe.args[2]),
                   !.done = TRUE]
    /\ UNCHANGED <<scenario, session_files, nextUuid, jobs, video_queue,
                   video_progress, redis_progress, published, output_folder,
                   age, stream, audio_probe>>

call_upload_images ==
    /\ probe.fn = "upload_images"
    /\ ~probe.done
    /\ probe' = [probe EXCEPT !.out = upload_images(probe.args[1]),
                              !.done = TRUE]
    /\ UNCHANGED <<scenario, session_files, nextUuid, jobs, video_queue,
                   video_progress, redis_progress, published, output_folder,
                   age, stream, audio_probe>>

NextPath == call_safe_join_path \/ call_download_video \/ call_upload_images

SpecPath == InitPath /\ [][NextPath]_vars

\* --------------------------------------------- scaling an image on its own
MaxSide == 7

\* a strip one pixel wide: upload keeps it as it is (below max_dimension)
TallSide == 1000

RECURSIVE Gcd(_, _)
Gcd(a, b) == IF b = 0 THEN a ELSE Gcd(b, a % b)

RECURSIVE Pow2(_)
Pow2(n) == IF n = 0 THEN 1 ELSE 2 * Pow2(n - 1)

\* floor(log2(n / d)): E is a lower bound that is raised (n >= d) or
\* lowered until 2^E <= n / d < 2^(E + 1)
RECURSIVE FloorLog2From(_, _, _)
FloorLog2From(n, d, E) ==
    IF E >= 0
    THEN IF d * Pow2(E + 1) <= n THEN FloorLog2From(n, d, E + 1) ELSE E
    ELSE IF n * Pow2(0 - E) < d THEN FloorLog2From(n, d, E - 1) ELSE E

FloorLog2(n, d) == FloorLog2From(n, d, IF n >= d THEN 0 ELSE 0 - 1)

\* 2^e modulo m
RECURSIVE PowMod(_, _)
PowMod(e, m) == IF e = 0 THEN 1 % m ELSE (2 * PowMod(e - 1, m)) % m

\* fraction bits of a double
MantissaBits == 52

\* x > y * 2^s
ExceedsScaled(x, y, s) ==
    IF s >= 0 THEN x > y * Pow2(s) ELSE x * Pow2(0 - s) > y

\* the exponent of the doubles just below the whole number k
ExponentBelow(k) ==
    LET L == FloorLog2(k, 1) IN IF Pow2(L) = k THEN L - 1 ELSE L

\* img_ratio = img.width / img.height is the double nearest to a / b (the
\* fraction reduced): Remainder is what the 53-bit quotient leaves, 0 when
\* the ratio is exact, below b/2 when it was rounded down, above when up
Remainder(a, b) == (a * PowMod(MantissaBits - FloorLog2(a, b), b)) % b

\* int(width / img_ratio): the exact quotient truncated; a whole quotient k
\* comes out as k - 1 when the ratio was rounded up by more than half the
\* distance between k and the double below it
IntOfQuotient(width, a, b) ==
    LET k == (width * b) \div a
        rem == Remainder(a, b)
    IN  IF /\ (width * b) % a = 0
           /\ 2 * rem > b
           /\ ExceedsScaled(k * (b - rem), a,
                            ExponentBelow(k) - FloorLog2(a, b) - 1)
        THEN k - 1 ELSE k

\* int(height * img_ratio): the same for a ratio that was rounded down
IntOfProduct(height, a, b) ==
    LET k == (height * a) \div b
        rem == Remainder(a, b)
    IN  IF /\ (height * a) % b = 0
           /\ rem # 0 /\ 2 * rem < b
           /\ ExceedsScaled(height * rem, b,
                            ExponentBelow(k) - FloorLog2(a, b) - 1)
        THEN k - 1 ELSE k

\* the size the image is resized to and where it is pasted on the
\* width x height background (the same computation in app.py, tasks.py and
\* celery_tasks.py)
Letterbox(iw, ih, width, height) ==
    LET a == iw \div Gcd(iw, ih)
        b == ih \div Gcd(iw, ih)
        new_width == IF iw * height > width * ih   \* img_ratio > video_ratio
                     THEN width ELSE IntOfProduct(height, a, b)
        new_height == IF iw * height > width * ih
                      THEN IntOfQuotient(width, a, b) ELSE height
    IN  [new_width |-> new_width, new_height |-> new_height,
         x |-> (width - new_width) \div 2,
         y |-> (height - new_height) \div 2]

InitScale ==
    /\ scenario = "scale"
    /\ session_files = << >>
    /\ audio_probe = NoProbe
    /\ InitCommon
    /\ probe \in
          { [NoCallYet EXCEPT !.fn = "letterbox", !.args = <<iw, ih, r>>] :
              iw \in (1..MaxSide) \cup {TallSide},
              ih \in (1..MaxSide) \cup {TallSide},
              r \in valid_resolutions }

call_letterbox ==
    /\ probe.fn = "letterbox"
    /\ ~probe.done
    /\ probe' = [probe EXCEPT
                   !.out = Letterbox(probe.args[1], probe.args[2],
                                     ParseResolution(probe.args[3])[1],
                                     ParseResolution(probe.args[3])[2]),
                   !.done = TRUE]
    /\ UNCHANGED <<scenario, session_files, nextUuid, jobs, video_queue,
                   video_progress, redis_progress, published, output_folder,
                   age, stream, audio_probe>>

SpecScale == InitScale /\ [][call_letterbox]_vars

\* ------------------------------------------- time, expiry and the readers
TickSeconds == 600   \* time passes in steps of this many seconds
MaxAge == 7          \* ages are counted up to this many ticks

ProgressTtl == 3600  \* redis_conn.setex(key, 3600, ...)
timeout == 600       \* get_progress: timeout = 600

\* get_progress lines 264-277: the Redis key if the app has redis_conn and
\* the key holds a value, else video_progress.get(job_id); NoRecord is None
ReadProgress(job_id) ==
    IF /\ job_id \in JobIds
       /\ AppRedisConn(job_id)
       /\ job_id \in DOMAIN redis_progress
    THEN redis_progress[job_id]
    ELSE IF job_id \in DOMAIN video_progress
    THEN video_progress[job_id]
    ELSE NoRecord

\* GET /job_status/<job_id>: with redis_conn the answer comes from the RQ
\* job's status (the job is kept for result_ttl = 3600 s after it ended),
\* otherwise, or when Job.fetch raises, from video_progress; ids are uuids
\* from 1 on, 0 stands for a string that is no uuid
job_status(job_id) ==
    LET Response(http, status, stage, progress) ==
            [http |-> http, status |-> status, stage |-> stage,
             progress |-> progress]
        fetched ==
            /\ job_id \in JobIds
            /\ jobs[job_id].strategy = "rq"
            /\ jobs[job_id].pc # "rejected"
            /\ ~ ( /\ jobs[job_id].pc = "returned"
                   /\ job_id \in DOMAIN age
                   /\ age[job_id] * TickSeconds >= 3600 )
    IN  IF job_id = 0 THEN Response(400, "none", "invalid", 0)
        ELSE IF fetched
        THEN IF jobs[job_id].pc = "queued"
             THEN Response(200, "queued", "queued", 0)
             ELSE IF jobs[job_id].pc = "returned"
             THEN Response(200, "finished", "completed", 100)
             ELSE Response(200, "started", "processing", 50)
        ELSE IF job_id \in DOMAIN video_progress
        THEN Response(200,
                      IF video_progress[job_id].progress < 100
                      THEN "processing" ELSE "completed",
                      video_progress[job_id].stage,
                      video_progress[job_id].progress)
        ELSE Response(404, "not_found", "not_found", 0)

\* app.py 919-926: the thread started after 'completed' sleeps 60 s and
\* deletes the job's entry of video_progress
CleanupPending(j) ==
    /\ jobs[j].strategy = "inline"
    /\ jobs[j].pc = "returned"
    /\ jobs[j].result.kind = "success"
    /\ j \in DOMAIN video_progress

cleanup_progress(j) ==
    /\ j \in JobIds
    /\ CleanupPending(j)
    /\ video_progress' =
          [k \in DOMAIN video_progress \ {j} |-> video_progress[k]]
    /\ UNCHANGED <<scenario, audio_probe, probe, stream, age, session_files, nextUuid,
                   jobs, video_queue, redis_progress, published,
                   output_folder>>

\* the generator's wait is counted up to the first tick past the deadline
MaxElapsed == (timeout \div TickSeconds) + 1

\* a stream that ignores the deadline
TimedOut_Never(elapsed) == FALSE

\* (datetime.now() - start_time).total_seconds() > timeout
TimedOut(elapsed) == elapsed * TickSeconds > timeout

\* TickSeconds pass: every record ages, a Redis key whose 3600 s are over is
\* gone, an open stream has waited longer; the 60 s of a cleanup thread are
\* over before a tick is
Tick ==
    /\ \A j \in JobIds : ~CleanupPending(j)
    /\ \/ \E j \in DOMAIN age : age[j] < MaxAge
       \/ stream.pc = "open" /\ stream.elapsed < MaxElapsed
    /\ age' = [j \in DOMAIN age |-> Min(age[j] + 1, MaxAge)]
    /\ redis_progress' =
          [j \in { k \in DOMAIN redis_progress :
                     age'[k] * TickSeconds < ProgressTtl } |->
              redis_progress[j]]
    /\ stream' = IF stream.pc = "open"
                 THEN [stream EXCEPT !.elapsed = Min(@ + 1, MaxElapsed)]
                 ELSE stream
    /\ UNCHANGED <<scenario, audio_probe, probe, session_files, nextUuid, jobs,
                   video_queue, video_progress, published, output_folder>>

\* a handler that enters the loop without the connection message
get_progress_NoAck(job_id) ==
    /\ stream.pc = "idle"
    /\ stream' = IF job_id = 0
                 THEN [NoStream EXCEPT !.pc = "ended", !.job_id = job_id,
                                       !.last_event = "invalid",
                                       !.events = 1]
                 ELSE [NoStream EXCEPT !.pc = "open", !.job_id = job_id]
    /\ UNCHANGED <<scenario, audio_probe, probe, age, session_files, nextUuid, jobs,
                   video_queue, video_progress, redis_progress, published,
                   output_folder>>

\* GET /progress/<job_id>, lines 246-257: up to the first pass of the loop
get_progress(job_id) ==
    /\ stream.pc = "idle"
    /\ stream' = IF job_id = 0
                 THEN [NoStream EXCEPT !.pc = "ended", !.job_id = job_id,
                                       !.last_event = "invalid",
                                       !.events = 1]
                 ELSE [NoStream EXCEPT !.pc = "open", !.job_id = job_id,
                                       !.last_event = "connected",
                                       !.events = 1]
    /\ UNCHANGED <<scenario, audio_probe, probe, age, session_files, nextUuid, jobs,
                   video_queue, video_progress, redis_progress, published,
                   output_folder>>

\* a generator that removes the record it has just sent
generate_Consuming ==
    /\ stream.pc = "open"
    /\ LET current_progress == ReadProgress(stream.job_id)
           sends == /\ ~TimedOut(stream.elapsed)
                    /\ current_progress # NoRecord
                    /\ current_progress # stream.last_progress
           Drop(f) == [k \in DOMAIN f \ {stream.job_id} |-> f[k]]
       IN  /\ stream' =
                 IF TimedOut(stream.elapsed)
                 THEN [stream EXCEPT !.pc = "ended",
                                     !.last_event = "timeout",
                                     !.events = @ + 1]
                 ELSE IF sends
                 THEN [stream EXCEPT
                         !.last_progress = current_progress,
                         !.last_event = "progress",
                         !.events = @ + 1,
                         !.pc = IF current_progress.stage
                                      \in {"completed", "error"}
                                THEN "ended" ELSE "open"]
                 ELSE stream
           /\ redis_progress' =
                 IF sends THEN Drop(redis_progress) ELSE redis_progress
           /\ video_progress' =
                 IF sends THEN Drop(video_progress) ELSE video_progress
    /\ UNCHANGED <<scenario, audio_probe, probe, age, session_files, nextUuid, jobs,
                   video_queue, published, output_folder>>

\* a loop that sends what it read whether or not it differs from the last
generate_Resending ==
    /\ stream.pc = "open"
    /\ LET current_progress == ReadProgress(stream.job_id)
       IN  stream' =
              IF TimedOut(stream.elapsed)
              THEN [stream EXCEPT !.pc = "ended", !.last_event = "timeout",
                                  !.events = @ + 1]
              ELSE IF current_progress # NoRecord
              THEN [stream EXCEPT
                      !.last_progress = current_progress,
                      !.last_event = "progress",
                      !.events = @ + 1,
                      !.pc = IF current_progress.stage
                                   \in {"completed", "error"}
                             THEN "ended" ELSE "open"]
              ELSE stream
    /\ UNCHANGED <<scenario, audio_probe, probe, age, session_files, nextUuid, jobs,
                   video_queue, video_progress, redis_progress, published,
                   output_folder>>

\* lines 259-290: one pass of the loop of the generator
generate ==
    /\ stream.pc = "open"
    /\ LET current_progress == ReadProgress(stream.job_id)
       IN  stream' =
              IF TimedOut(stream.elapsed)
              THEN [stream EXCEPT !.pc = "ended", !.last_event = "timeout",
                                  !.events = @ + 1]
              ELSE IF /\ current_progress # NoRecord
                      /\ current_progress # stream.last_progress
              THEN [stream EXCEPT
                      !.last_progress = current_progress,
                      !.last_event = "progress",
                      !.events = @ + 1,
                      !.pc = IF current_progress.stage
                                   \in {"completed", "error"}
                             THEN "ended" ELSE "open"]
              ELSE stream
    /\ UNCHANGED <<scenario, audio_probe, probe, age, session_files, nextUuid, jobs,
                   video_queue, video_progress, redis_progress, published,
                   output_folder>>

\* one job, one client of its progress, and time; the client asks for a
\* string that is no uuid (0), for the job's id (1) or for a uuid that is
\* never submitted (2)
InitWatch ==
    /\ scenario = "watch"
    /\ session_files \in
          { [i \in 1..k |-> [ext |-> "jpg", good |-> TRUE, name |-> i]] :
              k \in 0..MaxImages }
    /\ audio_probe = NoProbe
    /\ probe = NoCallYet
    /\ InitCommon

NextWatch ==
    \/ Next
    \/ Tick
    \/ \E j \in JobIds : cleanup_progress(j)
    \/ \E job_id \in {0, 1, 2} : get_progress(job_id)
    \/ generate

SpecWatch == InitWatch /\ [][NextWatch]_vars

\* time passes, the generator's loop keeps running, the cleanup thread runs
SpecWatchFair ==
    /\ SpecWatch
    /\ WF_vars(Tick)
    /\ WF_vars(generate)
    /\ WF_vars(\E j \in JobIds : cleanup_progress(j))



\* ================================================================ claims
Terminal == {"completed", "error"}

Last(seq) == seq[Len(seq)]

Returned(j) == jobs[j].pc = "returned"

\* a duration of at least 0.5 s and at most 10 s
DurationInRange(d) == d.kind = "num" /\ 50 <= d.cs /\ d.cs <= 1000

\* the job's request carries a duration inside the documented range
InRangeJob(j) == DurationInRange(jobs[j].req.duration)

\* the (stage, progress) pairs published for a job id, in order
Trace(j) ==
    [i \in 1..Len(published[j]) |->
        <<published[j][i].stage, published[j][i].progress>>]

\* C1 (as stated): within one run of a job the progress of consecutive
\* records never decreases, the terminal record included.
C1_ProgressNeverDecreases ==
    \A j \in JobIds :
        \A i \in 1..(Len(published[j]) - 1) :
            published[j][i].run = published[j][i + 1].run
                => published[j][i].progress <= published[j][i + 1].progress

\* C1 (amended): the only record whose progress is lower than that of the
\* record before it is the error record, and the error record always
\* carries progress 0; all other records of a job never decrease.
C1_ProgressDropsOnlyAtError ==
    \A j \in JobIds :
        /\ \A i \in 1..Len(published[j]) :
              published[j][i].stage = "error"
                  => published[j][i].progress = 0
        /\ \A i \in 1..(Len(published[j]) - 1) :
              published[j][i + 1].progress < published[j][i].progress
                  => published[j][i + 1].stage = "error"

\* a run went through two images and every later stage up to completed
C1_Witness ==
    \E j \in JobIds :
        /\ Len(jobs[j].image_files) = 2
        /\ jobs[j].req.audio_id # NoId
        /\ Returned(j)
        /\ Last(published[j]).stage = "completed"

\* C2: after a record with stage completed or error no further record is
\* published for the job id.
C2_TerminalExactlyOnce ==
    \A j \in JobIds :
        \A i \in 1..(Len(published[j]) - 1) :
            published[j][i].stage \notin Terminal

\* C3: when a run returns, the last published record has stage completed
\* for a success and stage error for a failure.
C3_TerminalRecordMatchesResult ==
    \A j \in JobIds :
        (Returned(j) /\ InRangeJob(j)) =>
            /\ published[j] # << >>
            /\ jobs[j].result.kind = "success"
                  => Last(published[j]).stage = "completed"
            /\ jobs[j].result.kind \in {"failure", "raised"}
                  => Last(published[j]).stage = "error"

\* C4: the artifact of a successful job is named after the job id: the file
\* <job_id>.mp4 exists, video_id is the job id and the download url is
\* built from the job id.
C4_ArtifactNamedAfterJob ==
    \A j \in JobIds :
        (jobs[j].result.kind = "success" /\ InRangeJob(j)) =>
            /\ j \in output_folder
            /\ jobs[j].result.video_id = j
            /\ jobs[j].result.download_id = j

\* C5: two jobs with the same request over a session of decodable jpg files
\* and with no external failure, one inline and one queued, publish the same
\* (stage, progress) sequence and return results of the same shape.
C5_StrategiesEquivalent ==
    \A j1 \in JobIds, j2 \in JobIds :
        ( /\ jobs[j1].strategy = "inline"
          /\ jobs[j2].strategy \in {"rq", "celery"}
          /\ jobs[j1].req = jobs[j2].req
          /\ session_files # << >>
          /\ \A i \in 1..Len(session_files) :
                session_files[i].ext = "jpg" /\ session_files[i].good
          /\ Returned(j1) /\ Returned(j2)
          /\ ~jobs[j1].faulted /\ ~jobs[j2].faulted )
        => /\ Trace(j1) = Trace(j2)
           /\ jobs[j1].result.kind = jobs[j2].result.kind
           /\ jobs[j1].result.keys = jobs[j2].result.keys

\* the error messages generate_video rejects a request with
C6_RejectionErrors ==
    {"Invalid session ID", "Invalid audio ID format",
     "Duration must be between 0.5 and 10 seconds", "Invalid resolution",
     "Session not found", "No images found in session"}

InQueue(j) == \E i \in 1..Len(video_queue) : video_queue[i] = j

\* C6: a submission rejected with a validation or not-found error has no
\* progress record and is not enqueued.
C6_RejectedNeverEnters ==
    \A j \in JobIds :
        ( /\ jobs[j].strategy \in {"inline", "rq"}
          /\ jobs[j].error \in C6_RejectionErrors )
        => /\ published[j] = << >>
           /\ ~InQueue(j)
           /\ jobs[j].pc = "rejected"
           /\ jobs[j].http \in {400, 404}

\* a well-formed request for a session that has no directory was rejected
C6_Witness ==
    \E j \in JobIds :
        /\ jobs[j].error = "Session not found"
        /\ jobs[j].http = 404
        /\ jobs[j].req.session_id = SessionB

\* the request is well-formed apart from the field under test, and its
\* session has images
C7_ValidSession(req) ==
    /\ req.session_id = SessionA
    /\ req.audio_id \in {NoId, AudioC}
    /\ Len(session_files) > 0

ViaSubmit(j) == jobs[j].strategy \in {"inline", "rq"}

Created(j) == jobs[j].pc # "rejected"

\* C7: with a valid session and a whitelisted resolution, submit creates a
\* job exactly when duration_per_image lies in [0.5, 10].
C7_DurationRange ==
    \A j \in JobIds :
        ( /\ ViaSubmit(j)
          /\ C7_ValidSession(jobs[j].req)
          /\ jobs[j].req.resolution = "1280x720" )
        => (Created(j) <=> DurationInRange(jobs[j].req.duration))

C8_Twelve ==
    {"640x480", "854x480", "1280x720", "1920x1080", "2560x1440", "3840x2160",
     "480x640", "480x854", "720x1280", "1080x1920", "1440x2560", "2160x3840"}

\* C8: with a valid session and duration, submit creates a job exactly when
\* the resolution string is one of the twelve whitelisted ones; any other
\* string is rejected with no record and no queue entry.
C8_ResolutionWhitelist ==
    \A j \in JobIds :
        ( /\ ViaSubmit(j)
          /\ C7_ValidSession(jobs[j].req)
          /\ jobs[j].req.duration = Num(200) )
        => /\ Created(j) <=> jobs[j].req.resolution \in C8_Twelve
           /\ jobs[j].req.resolution \notin C8_Twelve
                 => published[j] = << >> /\ ~InQueue(j)

\* submit accepted a portrait resolution
C8_Witness ==
    \E j \in JobIds :
        /\ ViaSubmit(j)
        /\ jobs[j].req.resolution = "2160x3840"
        /\ jobs[j].req.duration = Num(200)
        /\ Created(j)

GoodImages(j) ==
    SelectSeq(jobs[j].image_files, LAMBDA i : session_files[i].good)

\* C9: a job that met no external failure ends in error exactly when none
\* of its images could be processed, and otherwise completes with exactly
\* the images that could.
C9_BadImagesSkipped ==
    \A j \in JobIds :
        ( /\ Returned(j)
          /\ InRangeJob(j)
          /\ ~jobs[j].faulted
          /\ jobs[j].image_files # << >>
          /\ jobs[j].req.resolution \in C8_Twelve )
        => IF GoodImages(j) = << >>
           THEN jobs[j].result.kind = "failure"
           ELSE /\ jobs[j].result.kind = "success"
                /\ jobs[j].clips = GoodImages(j)

C11_NoErrorBeforeBudgetExhausted ==
    \A j \in JobIds :
        jobs[j].pc = "retry"
            => \A i \in 1..Len(published[j]) : published[j][i].stage # "error"

\* the failures of generate_video_task that name no exception
C12_NamedFailures ==
    {"Session not found", "No images found", "Failed to process any images"}

\* the message of an exception names memory or timeout, in any letter case
\* the model's messages use
C12_NamesMemoryOrTimeout(msg) ==
    \E i \in 1..Len(msg) :
        msg[i] \in {"memory", "Memory", "timeout", "Timeout"}

\* C12: in the Celery task a failure that is not transient (session not
\* found, no images found, zero images processed, an exception whose message
\* names neither memory nor timeout) publishes the error record with
\* progress 0 as the last record, returns a failure and schedules no retry;
\* a retry is only ever scheduled for a transient exception.
C12_NonTransientNoRetry ==
    \A j \in JobIds :
        jobs[j].strategy = "celery" =>
            /\ jobs[j].pc = "retry" => C12_NamesMemoryOrTimeout(jobs[j].exc)
            /\ ( \/ jobs[j].error \in C12_NamedFailures
                 \/ /\ jobs[j].pc \in {"retry", "returned"}
                    /\ jobs[j].exc \notin {NoExc, SoftTimeLimitExceeded}
                    /\ ~C12_NamesMemoryOrTimeout(jobs[j].exc) )
               => /\ Returned(j)
                  /\ Last(published[j]) =
                        [stage |-> "error", progress |-> 0,
                         run |-> jobs[j].run]
                  /\ jobs[j].result.kind = "failure"
                  /\ jobs[j].retries = jobs[j].run - 1

\* the encoder failed with a message that names neither memory nor timeout
\* and the task returned after its first run
C12_Witness ==
    \E j \in JobIds :
        /\ jobs[j].strategy = "celery"
        /\ Returned(j)
        /\ jobs[j].exc = FatalMessage
        /\ jobs[j].run = 1
        /\ jobs[j].output_id = j

\* record i is the first one its run published
FirstOfRun(j, i) ==
    i = 1 \/ published[j][i - 1].run # published[j][i].run

\* C13 (as stated): the first record published by a retried run has stage
\* initializing and progress 0.
C13_RetryStartsAtZero ==
    \A j \in JobIds :
        \A i \in 1..Len(published[j]) :
            (published[j][i].run > 1 /\ FirstOfRun(j, i))
                => /\ published[j][i].stage = "initializing"
                   /\ published[j][i].progress = 0

\* C13 (amended): the first record published by a retried run has stage
\* initializing and progress 5, it directly follows the error record
\* (progress 0) of the run before, and the run starts with no image listed,
\* no clip, no audio and no output file name.
C13_RetryStartsAtInitializing ==
    \A j \in JobIds :
        /\ \A i \in 1..Len(published[j]) :
              (published[j][i].run > 1 /\ FirstOfRun(j, i))
                  => /\ published[j][i].stage = "initializing"
                     /\ published[j][i].progress = 5
                     /\ published[j][i - 1].stage = "error"
                     /\ published[j][i - 1].progress = 0
                     /\ published[j][i - 1].run = published[j][i].run - 1
        /\ (jobs[j].strategy = "celery" /\ jobs[j].pc = "list")
              => /\ jobs[j].idx = 0
                 /\ jobs[j].clips = << >>
                 /\ jobs[j].image_files = << >>
                 /\ jobs[j].audio = NoAudio
                 /\ jobs[j].output_id = 0
                 /\ Last(published[j]).stage = "initializing"

\* a second run has published its first record
C13_Witness ==
    \E j \in JobIds :
        /\ jobs[j].pc = "list"
        /\ jobs[j].run = 2
        /\ Last(published[j]).run = 2

Rank(stage) ==
    CASE stage = "initializing" -> 1
      [] stage = "processing" -> 2
      [] stage = "concatenating" -> 3
      [] stage = "audio" -> 4
      [] stage = "encoding" -> 5
      [] stage = "completed" -> 6
      [] stage = "error" -> 7

\* C14: within one run the published stages never move backwards in the
\* order initializing, processing, concatenating, audio, encoding,
\* completed; nothing follows completed or error inside the run; the audio
\* stage is published only for a request with an audio id, and such a
\* request never goes from concatenating straight to encoding.
C14_StagesForward ==
    \A j \in JobIds :
        /\ \A i \in 1..(Len(published[j]) - 1) :
              published[j][i].run = published[j][i + 1].run
                  => /\ Rank(published[j][i].stage)
                           <= Rank(published[j][i + 1].stage)
                     /\ published[j][i].stage \notin Terminal
                     /\ ( /\ published[j][i].stage = "concatenating"
                          /\ published[j][i + 1].stage = "encoding" )
                        => jobs[j].req.audio_id = NoId
        /\ \A i \in 1..Len(published[j]) :
              /\ published[j][i].stage = "audio"
                    => jobs[j].req.audio_id # NoId
              /\ FirstOfRun(j, i) => published[j][i].stage = "initializing"

\* a Celery run with an audio id went through all six stages in order
C14_Witness ==
    \E j \in JobIds :
        /\ jobs[j].strategy = "celery"
        /\ Len(jobs[j].image_files) = 1
        /\ Trace(j) = << <<"initializing", 5>>, <<"processing", 10>>,
                         <<"processing", 10>>, <<"concatenating", 60>>,
                         <<"audio", 70>>, <<"encoding", 75>>,
                         <<"completed", 100>> >>

MaxTotal == 40      \* most images of a session in the range check of C15

StageRange(stage) ==
    CASE stage = "initializing" -> 0..9
      [] stage = "processing" -> 10..59
      [] stage = "concatenating" -> {60}
      [] stage = "audio" -> 65..74
      [] stage = "encoding" -> 75..99
      [] stage = "completed" -> {100}
      [] OTHER -> {}

\* C15: every published record other than error has a progress inside the
\* range of its stage; inside a run progress strictly increases from a
\* record to the next one of another stage (error aside); and the progress
\* of image idx of total lies in 10..59 and never decreases with idx, for
\* every total up to MaxTotal (the formula is evaluated where no job exists
\* yet, it does not depend on the state).
C15_ProgressInStageRange ==
    /\ \A j \in JobIds :
          /\ \A i \in 1..Len(published[j]) :
                published[j][i].stage # "error"
                    => published[j][i].progress
                           \in StageRange(published[j][i].stage)
          /\ \A i \in 1..(Len(published[j]) - 1) :
                ( /\ published[j][i].run = published[j][i + 1].run
                  /\ published[j][i + 1].stage # "error"
                  /\ published[j][i].stage # published[j][i + 1].stage )
                => published[j][i].progress < published[j][i + 1].progress
    /\ JobIds = {}
          => \A total \in 1..MaxTotal :
                \A idx \in 0..(total - 1) :
                    /\ ImageProgress(idx, total) \in 10..59
                    /\ idx > 0 => ImageProgress(idx - 1, total)
                                      <= ImageProgress(idx, total)

\* the second of two images was announced at 35 and the run reached encoding
C15_Witness ==
    \E j \in JobIds :
        /\ \E i \in 1..Len(published[j]) :
              published[j][i] = [stage |-> "processing", progress |-> 35,
                                 run |-> 1]
        /\ Last(published[j]).stage = "encoding"

\* C16: a job whose terminal stage is error leaves no output file behind:
\* neither <job_id>.mp4 nor the file the run chose as its output path.
C16_NoPartialFileAfterError ==
    \A j \in JobIds :
        ( /\ Returned(j)
          /\ InRangeJob(j)
          /\ published[j] # << >>
          /\ Last(published[j]).stage = "error" )
        => /\ j \notin output_folder
           /\ jobs[j].output_id \notin output_folder

\* the audio step of the current run of job j met an error
AudioFailed(j) == jobs[j].audio.fault # "none"

\* the error stayed inside the audio step: the record after audio is
\* encoding, and the run goes on to the encoder
AudioErrorContained(j) ==
    /\ Last(published[j]).stage = "audio" => jobs[j].pc = "encode"
    /\ \A i \in 1..(Len(published[j]) - 1) :
          ( /\ published[j][i].run = jobs[j].run
            /\ published[j][i].stage = "audio" )
          => published[j][i + 1].stage = "encoding"
    /\ (Returned(j) /\ jobs[j].result.kind # "success")
          => jobs[j].exc # NoExc

C18_AudioMatchesVideo ==
    audio_probe.done =>
        LET Ta == audio_probe.env.Ta
            Tv == audio_probe.Tv
            out == audio_probe.out
            sync == Synchronize(Ta, Tv)
        IN  /\ out.attached => out.duration = Tv
            /\ audio_probe.env.trim = NoTrim =>
                  /\ out.attached => out.offset = 0 /\ out.duration = sync.duration
                  /\ sync.duration = Tv
                  /\ Ta > Tv => sync.loops = 1
                  /\ Ta = Tv => sync.loops = 1 /\ sync.concat = Ta
                  /\ Ta < Tv => /\ sync.loops = (Tv \div Ta) + 1
                                /\ sync.concat = sync.loops * Ta
                                /\ sync.concat >= Tv
                                /\ sync.concat - Ta <= Tv
                  /\ ( /\ audio_probe.variant \in {"inline", "celery"}
                       /\ audio_probe.env.moviepy = 2 )
                     => out.attached

\* an asset of 3 units was repeated twice for a video of 4 units
C18_Witness ==
    /\ audio_probe.done
    /\ audio_probe.variant = "celery"
    /\ audio_probe.env.Ta = 3
    /\ audio_probe.Tv = 4
    /\ audio_probe.env.trim = NoTrim
    /\ audio_probe.out.attached
    /\ audio_probe.out.duration = 4

\* C19: whenever a variant cuts the asset to a persisted trim window, the
\* bounds it hands to the cut satisfy 0 <= start <= end <= Ta, and the cut
\* is not the whole asset.
C19_TrimBoundsClamped ==
    ( /\ audio_probe.done
      /\ audio_probe.env.moviepy = 2
      /\ audio_probe.out.call # NoCall ) =>
        /\ 0 <= audio_probe.out.call[1]
        /\ audio_probe.out.call[1] <= audio_probe.out.call[2]
        /\ audio_probe.out.call[2] <= audio_probe.env.Ta
        /\ audio_probe.out.call # <<0, audio_probe.env.Ta>>

\* C20: when a trim file with a start offset inside the asset is persisted,
\* the audio attached to the video starts at that offset, in every variant.
C20_AudioStartsAtTrimStart ==
    ( /\ audio_probe.done
      /\ audio_probe.out.attached
      /\ audio_probe.env.trim.start > 0
      /\ audio_probe.env.trim.start < audio_probe.env.Ta
      /\ audio_probe.env.trim.end # None
      /\ audio_probe.env.trim.end <= audio_probe.env.Ta )
    => audio_probe.out.offset = audio_probe.env.trim.start

\* ------------------------------------------------------------------ C21
\* the tier table of the claim, by pixel count
C21_TierTable(pixels) ==
    IF pixels >= 3840 * 2160 THEN "20000k"
    ELSE IF pixels >= 2560 * 1440 THEN "12000k"
    ELSE IF pixels >= 1920 * 1080 THEN "8000k"
    ELSE IF pixels >= 1280 * 720 THEN "5000k"
    ELSE "2500k"

\* C21: in every strategy, a job with a whitelisted resolution that reached
\* the encoder called it with the bitrate of the tier table for the pixel
\* count of its resolution
C21_BitrateFromTierTable ==
    \A j \in JobIds :
        ( /\ InRangeJob(j)
          /\ jobs[j].bitrate # ""
          /\ jobs[j].req.resolution \in valid_resolutions )
        => jobs[j].bitrate =
              C21_TierTable(ParseResolution(jobs[j].req.resolution)[1]
                            * ParseResolution(jobs[j].req.resolution)[2])

\* ------------------------------------------------------------------ C22
\* the job went through its whole image loop, every image of the session
\* could be processed, and the request names no audio
C22_AllProcessed(j) ==
    /\ InRangeJob(j)
    /\ jobs[j].req.audio_id = NoId
    /\ jobs[j].pc \in {"concat", "encode", "finish", "returned"}
    /\ jobs[j].image_files # << >>
    /\ jobs[j].idx = Len(jobs[j].image_files)
    /\ \A i \in 1..Len(session_files) : session_files[i].good

\* C22: a job over N images that all process successfully, without audio,
\* composes exactly N frames, one per image of the session, and the video
\* lasts N times the duration per image
C22_OneFramePerImage ==
    \A j \in JobIds :
        C22_AllProcessed(j)
        => /\ Len(jobs[j].clips) = Len(session_files)
           /\ { jobs[j].clips[i] : i \in 1..Len(jobs[j].clips) }
                 = 1..Len(session_files)
           /\ VideoDuration(j)
                 = Len(session_files) * jobs[j].req.duration.cs

C22_Witness ==
    \E j \in JobIds :
        /\ C22_AllProcessed(j)
        /\ Len(session_files) = 2
        /\ Len(jobs[j].clips) = 2
        /\ jobs[j].strategy = "rq"
        /\ jobs[j].result.kind = "success"

\* ------------------------------------------------------------------ C23
\* C23: in every strategy the frames follow the upload order of the
\* session's images: the job works through the directory oldest file first
C23_FramesInUploadOrder ==
    \A j \in JobIds :
        InRangeJob(j)
        => \A a \in 1..Len(jobs[j].image_files),
              b \in 1..Len(jobs[j].image_files) :
               a < b => jobs[j].image_files[a] < jobs[j].image_files[b]

\* ------------------------------------------------------------------ C24
\* C24: a job never creates, changes or removes a file in the session's
\* image directory or in the audio directory
C24_InputDirectoriesReadOnly ==
    \A j \in JobIds :
        InRangeJob(j)
        => \A p \in jobs[j].wrote : p.dir \notin {"uploads", "audio"}

\* ------------------------------------------------------------------ C25
\* the job has started and has not ended
C25_Active(j) ==
    jobs[j].pc \in {"list", "image", "concat", "audio", "encode", "finish",
                    "except"}

\* C25: two jobs that run at the same time never write the same path
C25_NoSharedPath ==
    \A j1 \in JobIds, j2 \in JobIds :
        ( /\ j1 # j2
          /\ InRangeJob(j1) /\ InRangeJob(j2)
          /\ C25_Active(j1) /\ C25_Active(j2) )
        => jobs[j1].wrote \cap jobs[j2].wrote = {}

\* ------------------------------------------------------------------ C26
\* the number of executions of job j that have started: each publishes
\* 'initializing' first
C26_Starts(j) ==
    Cardinality({ i \in 1..Len(published[j]) :
                    published[j][i].stage = "initializing" })

C27_Latest(j) ==
    [stage |-> Last(published[j]).stage,
     progress |-> Last(published[j]).progress,
     timestamp |-> Len(published[j])]

\* nothing was published for j, or what was published is gone: the Redis
\* key's time is over, or the cleanup thread removed the completed entry
C27_NoneOrExpired(j) ==
    \/ published[j] = << >>
    \/ age[j] * TickSeconds >= ProgressTtl
    \/ jobs[j].strategy = "inline" /\ Last(published[j]).stage = "completed"

C27_ReadIsLatest ==
    \A j \in JobIds :
        IF ReadProgress(j) = NoRecord
        THEN C27_NoneOrExpired(j)
        ELSE published[j] # << >> /\ ReadProgress(j) = C27_Latest(j)

C27_StreamSendsLatest ==
    stream'.last_progress # stream.last_progress
    => /\ stream.job_id \in JobIds
       /\ published[stream.job_id] # << >>
       /\ stream'.last_progress = C27_Latest(stream.job_id)

\* C27: reading the progress of a job id gives the record of the most
\* recent publish for it, or nothing if nothing was published or it
\* expired, and every record the stream sends is the latest one published
\* when it is sent
C27_LastWriteWins ==
    /\ []C27_ReadIsLatest
    /\ [][C27_StreamSendsLatest]_vars

C27_Witness ==
    /\ stream.last_event = "progress"
    /\ stream.job_id \in JobIds
    /\ jobs[stream.job_id].strategy = "rq"
    /\ Len(published[stream.job_id]) >= 3
    /\ stream.last_progress = C27_Latest(stream.job_id)
    /\ stream.last_progress.stage = "concatenating"

\* ------------------------------------------------------------------ C28
\* C28: no record of a job that has ended, in the Redis store or in the
\* in-process map, is still there more than 3600 s after its last publish
C28_RecordsExpire ==
    \A j \in JobIds :
        ( /\ jobs[j].pc = "returned"
          /\ j \in DOMAIN age
          /\ age[j] * TickSeconds > ProgressTtl )
        => /\ j \notin DOMAIN redis_progress
           /\ j \notin DOMAIN video_progress

\* ------------------------------------------------------------------ C29
\* C29: for a job that has published, inline or RQ, the poll endpoint
\* reports the stage and progress of the latest published record, which is
\* what the stream reads; for an id never submitted it answers not found
C29_PollMatchesStream ==
    /\ job_status(nextUuid).http = 404
    /\ \A j \in JobIds :
          ( /\ InRangeJob(j)
            /\ jobs[j].strategy \in {"inline", "rq"}
            /\ published[j] # << >> )
          => /\ job_status(j).stage = ReadProgress(j).stage
             /\ job_status(j).progress = ReadProgress(j).progress
             /\ job_status(j).stage = Last(published[j]).stage
             /\ job_status(j).progress = Last(published[j]).progress

\* ------------------------------------------------------------------ C30
C30_Ended == stream.pc = "ended"

C30_LastEventEnds ==
    (C30_Ended /\ stream.job_id # 0)
    => \/ stream.last_event = "timeout"
       \/ /\ stream.last_event = "progress"
          /\ stream.last_progress.stage \in {"completed", "error"}

\* C30: every stream opened for a valid job id ends; its last event is a
\* record with stage completed or error, or the timeout error; nothing is
\* sent after that
C30_StreamEnds ==
    /\ (stream.pc = "open") ~> C30_Ended
    /\ []C30_LastEventEnds
    /\ [][C30_Ended => stream' = stream]_vars

C30_Witness ==
    /\ C30_Ended
    /\ stream.job_id \in JobIds
    /\ stream.last_event = "timeout"
    /\ published[stream.job_id] # << >>

\* ------------------------------------------------------------------ C31
\* C31: a stream for a valid job id sends the connection message as its
\* first event, before any progress record; a stream for an invalid job id
\* sends one error event and nothing else, and reads no progress record
C31_AckFirst ==
    stream.pc # "idle"
    => IF stream.job_id = 0
       THEN /\ stream.pc = "ended"
            /\ stream.events = 1
            /\ stream.last_event = "invalid"
            /\ stream.last_progress = NoRecord
       ELSE /\ stream.events >= 1
            /\ stream.events = 1 <=> stream.last_event = "connected"
            /\ stream.last_event \in {"connected", "progress", "timeout"}
            /\ stream.last_event = "connected"
                  => stream.last_progress = NoRecord

C31_Witness ==
    /\ stream.job_id \in JobIds
    /\ stream.events = 2
    /\ stream.last_event = "progress"
    /\ stream.last_progress.stage = "initializing"

\* ------------------------------------------------------------------ C32
\* a step in which the stream sends an event: it opens, sends a record,
\* times out or closes
C32_StreamStep == stream'.events # stream.events

C32_Unfinished(j) == jobs[j].pc \notin {"returned", "rejected"}

\* C32: a step of the stream leaves the jobs, the queue, the progress
\* records of both stores and the output folder as they are, and whatever
\* the stream does or has done, a job that has not ended can take its next
\* step
C32_StreamOnlyReads ==
    /\ [][C32_StreamStep
            => UNCHANGED <<jobs, video_queue, video_progress, redis_progress,
                           published, output_folder, session_files, age>>]_vars
    /\ []((\E j \in JobIds : C32_Unfinished(j)) => ENABLED Next)

C32_Witness ==
    /\ stream.pc = "ended"
    /\ stream.last_event = "timeout"
    /\ stream.job_id \in JobIds
    /\ stream.last_progress.stage = "processing"
    /\ jobs[stream.job_id].result.kind = "success"
    /\ output_folder # {}

\* ------------------------------------------------------------------ C33
\* the handler of the submission has sent its response
C33_Responded(j) == jobs[j].http # 0

\* C33: an accepted inline submission is answered only after the job has
\* published its terminal record; an accepted queued submission is answered
\* at once, when it is enqueued, whatever the job has published
C33_SubmitReturns ==
    \A j \in JobIds :
        /\ ( /\ jobs[j].strategy = "inline"
             /\ jobs[j].pc # "rejected"
             /\ C33_Responded(j) )
           => /\ jobs[j].pc = "returned"
              /\ published[j] # << >>
              /\ Last(published[j]).stage \in Terminal
        /\ ( /\ jobs[j].strategy = "inline"
             /\ jobs[j].pc \notin {"rejected", "returned"} )
           => ~C33_Responded(j)
        /\ ( /\ jobs[j].strategy = "rq"
             /\ jobs[j].pc # "rejected" )
           => /\ C33_Responded(j)
              /\ jobs[j].http = 200

C33_Witness ==
    \E j \in JobIds :
        /\ jobs[j].strategy = "rq"
        /\ InQueue(j)
        /\ published[j] = << >>
        /\ jobs[j].http = 200

\* C34: a path that safe_join_path returns is a proper descendant of its
\* base, whatever the segments: ".." components, absolute segments, or a
\* sibling directory whose name starts with the name of the base. Stated
\* here in the weaker form that also admits the base itself: a returned
\* path has the components of the base as its first components.
C34_Base == Abspath(UploadFolder)

C34_Returned == probe.fn = "safe_join_path" /\ probe.done /\ ~probe.out.raised

C34_ReturnedInsideBase ==
    C34_Returned
    => /\ Len(probe.out.path) >= Len(C34_Base)
       /\ SubSeq(probe.out.path, 1, Len(C34_Base)) = C34_Base

\* C35: every identifier that comes from a client is checked with
\* is_valid_uuid before a handler builds a path or a glob pattern from it:
\* no path is built from an identifier that fails the check.
C35_Handled == probe.fn \in {"download_video", "upload_images"} /\ probe.done

C35_PathsFromValidIdsOnly ==
    C35_Handled => \A id \in probe.out.built : is_valid_uuid(id)

\* C36: the image is resized to (round(iw*s), round(ih*s)) with
\* s = min(W/iw, H/ih). The side that s is taken from is the target's; the
\* other is the exact quotient rounded to the nearest integer (either
\* neighbour at an exact half).
C36_Scaled == probe.fn = "letterbox" /\ probe.done

C36_Rounded(n, d) ==
    IF (2 * n) % d = 0 /\ n % d # 0
    THEN {n \div d, (n \div d) + 1}
    ELSE {(2 * n + d) \div (2 * d)}

C36_SizeIsRounded ==
    C36_Scaled
    => LET iw == probe.args[1]
           ih == probe.args[2]
           W == ParseResolution(probe.args[3])[1]
           H == ParseResolution(probe.args[3])[2]
       IN  IF W * ih <= H * iw                  \* s = W/iw
           THEN /\ probe.out.new_width = W
                /\ probe.out.new_height \in C36_Rounded(W * ih, iw)
           ELSE /\ probe.out.new_height = H
                /\ probe.out.new_width \in C36_Rounded(H * iw, ih)

\* C37: the scaled image fits the canvas and is not empty: both sides are
\* at least 1 and at most the target's, one side equals the target's, and
\* both paste offsets are non-negative.
C37_Pasted == probe.fn = "letterbox" /\ probe.done

C37_FitsAndNotEmpty ==
    C37_Pasted
    => LET W == ParseResolution(probe.args[3])[1]
           H == ParseResolution(probe.args[3])[2]
       IN  /\ 1 <= probe.out.new_width /\ probe.out.new_width <= W
           /\ 1 <= probe.out.new_height /\ probe.out.new_height <= H
           /\ probe.out.new_width = W \/ probe.out.new_height = H
           /\ probe.out.x >= 0 /\ probe.out.y >= 0

\* C38: the poll endpoint never reports a job that ended in failure as
\* completed or as still processing: a queued-mode job whose function
\* returned a failure result is not shown with stage completed and progress
\* 100, and an inline job whose last record has stage error is not shown
\* with status processing.
C38_Failed(j) ==
    /\ InRangeJob(j)
    /\ jobs[j].pc = "returned"
    /\ jobs[j].result.kind = "failure"
    /\ published[j] # << >>
    /\ Last(published[j]).stage = "error"

C38_FailureNotShownAsSuccess ==
    \A j \in JobIds :
        C38_Failed(j)
        => /\ jobs[j].strategy = "rq"
              => ~ ( /\ job_status(j).stage = "completed"
                     /\ job_status(j).progress = 100 )
           /\ jobs[j].strategy = "inline"
              => job_status(j).status # "processing"

\* C39: the records a progress stream sends are, in order, a subsequence of
\* the records published for its job id: each one sent is a published
\* record of that job, later in the order of publication than the one sent
\* before it, so none is repeated, reordered or invented (records between
\* two polls may be skipped).
C39_Sends ==
    /\ stream'.events = stream.events + 1
    /\ stream'.last_event = "progress"

C39_SentIsLaterPublished ==
    LET j == stream.job_id
        sent == stream'.last_progress
    IN  /\ j \in JobIds
        /\ sent.timestamp \in 1..Len(published[j])
        /\ published[j][sent.timestamp].stage = sent.stage
        /\ published[j][sent.timestamp].progress = sent.progress
        /\ sent.timestamp > stream.last_progress.timestamp
        /\ sent # stream.last_progress

C39_EventsAreSubsequence == [][C39_Sends => C39_SentIsLaterPublished]_vars

\* a stream that sent two records or more and skipped one in between
C39_Witness ==
    /\ stream.last_event = "progress"
    /\ stream.events >= 3
    /\ stream.last_progress.timestamp > stream.events - 1

\* C40: the image files a worker processes for a session are the files the
\* submit check counted when it accepted the job: the worker never ends
\* with 'No images found' for an accepted job and never lists a file that
\* submit did not count.
C40_Listed(j) ==
    /\ InRangeJob(j)
    /\ jobs[j].strategy = "rq"
    /\ Len(published[j]) >= 2

C40_Files(files) == { files[i] : i \in 1..Len(files) }

C40_WorkerFilesAreCounted ==
    \A j \in JobIds :
        C40_Listed(j)
        => /\ jobs[j].error # "No images found for this session"
           /\ C40_Files(jobs[j].image_files) = C40_Files(jobs[j].counted)

====
